---- MODULE Spec2Model ----
(***************************************************************************)
(* Model of the adaptation engine of Station-Manager/adapters              *)
(* (src/adapter.go): the copy-on-write converter and validator registries, *)
(* the per-type field metadata, and Adapter.Into with its three phases     *)
(* (direct field resolution, AdditionalData unmarshal, AdditionalData      *)
(* marshal).                                                               *)
(*                                                                         *)
(* Go maps are heap objects with identity: the registries are modelled as  *)
(* a heap of maps so that a registration that shared or mutated a          *)
(* published map would be visible.  A goroutine is interleaved with the    *)
(* others only at its atomic loads and stores (atomic.Value), so every     *)
(* action is one atomic operation together with the goroutine-local code   *)
(* that follows it.                                                        *)
(***************************************************************************)
EXTENDS Integers, Sequences, FiniteSets, TLC

\* ------------------------------------------------------------------------
\* Bounds of the model
\* ------------------------------------------------------------------------
\* Registration calls (Register* and Batch) started in one behaviour.
MaxRegs == 2

\* ------------------------------------------------------------------------
\* Generic helpers
\* ------------------------------------------------------------------------
EmptyMap == [x \in {} |-> 0]

\* m[k] = v on a Go map (insert or overwrite).
Put(m, k, v) == [x \in DOMAIN m \cup {k} |-> IF x = k THEN v ELSE m[x]]

RECURSIVE SetToSeq(_)
SetToSeq(S) ==
  IF S = {} THEN <<>>
  ELSE LET x == CHOOSE y \in S : TRUE IN <<x>> \o SetToSeq(S \ {x})

\* ------------------------------------------------------------------------
\* Values.  A Go value is [k: its dynamic type, v: a number, b: bytes].
\* Scalars use v (0 is the zero value); the JSON container types use b, and
\* null.JSON uses v as its Valid flag.  Bytes are nil, malformed, or the
\* encoding of a JSON object (a map from keys to JSON values).
\* ------------------------------------------------------------------------
NilBytes == [st |-> "nil", obj |-> EmptyMap]
BadBytes == [st |-> "bad", obj |-> EmptyMap]
\* The bytes of the JSON literal null: json.Unmarshal into a map accepts them
\* and leaves the map nil.
NullBytes == [st |-> "null", obj |-> EmptyMap]
ObjBytes(o) == [st |-> "obj", obj |-> o]
\* The bytes of a JSON string or number: well-formed JSON that is no object.
ScalarBytes(raw) == [st |-> "scalar", obj |-> [x \in {""} |-> raw]]

Scalar(k, n) == [k |-> k, v |-> n, b |-> NilBytes]
StringVal(n) == Scalar("string", n)
IntVal(n) == Scalar("int", n)
\* The untyped nil a converter may return.
NilVal == Scalar("nil", 0)

\* JSON values of an encoded object.
JStr(n) == [j |-> "str", n |-> n]
JNum(n) == [j |-> "num", n |-> n]

JSONTypes == {"null.JSON", "types.JSON"}

\* null.JSON{} and null.JSONFrom(bytes); types.JSON(nil) and types.JSON(bytes)
NullJSONZero == [k |-> "null.JSON", v |-> 0, b |-> NilBytes]
NullJSONFrom(bytes) == [k |-> "null.JSON", v |-> IF bytes.st = "nil" THEN 0 ELSE 1, b |-> bytes]
BoilerJSON(bytes) == [k |-> "types.JSON", v |-> 0, b |-> bytes]

\* reflect.Zero(t)
Zero(t) ==
  CASE t = "null.JSON" -> NullJSONZero
    [] t = "types.JSON" -> BoilerJSON(NilBytes)
    [] OTHER -> Scalar(t, 0)

\* reflect.Value.IsZero
IsZero(val) == val = Zero(val.k)

\* reflect.Type.AssignableTo for the types of the model: identical types only.
AssignableTo(from, to) == from = to

\* reflect.Type.ConvertibleTo for the types of the model: Go converts between
\* the numeric types and from an integer to a string, never from a string to
\* a number, and never to or from the struct and slice JSON containers.
NumericTypes == {"int", "float64"}
ConvertibleTo(from, to) ==
  \/ from = to
  \/ from \in NumericTypes /\ to \in NumericTypes
  \/ from = "int" /\ to = "string"

\* reflect.Value.Convert
ConvertKeepsType(val, to) == val
Convert(val, to) == Scalar(to, val.v)

\* strings.ToLower on the names and keys of the model.
ToLower(s) ==
  CASE s \in {"Name", "name", "NAME"} -> "name"
    [] s \in {"Age", "age"} -> "age"
    [] s \in {"Email", "email"} -> "email"
    [] s = "AdditionalData" -> "additionaldata"
    [] s = "Extra" -> "extra"
    [] s \in {"Note", "NOTE"} -> "note"
    [] s \in {"Years", "years"} -> "years"
    [] s \in {"Span", "span"} -> "span"
    [] s = "Len" -> "len"
    [] s = "FullName" -> "fullname"
    [] s = "Count" -> "count"
    [] s = "Street" -> "street"
    [] s = "V" -> "v"
    [] OTHER -> s

\* ------------------------------------------------------------------------
\* Struct types and their metadata
\* ------------------------------------------------------------------------
\* A declared struct field: Go name, json tag name, adapter tag, type.
FieldDecl(n, j, tag, typ) == [name |-> n, json |-> j, tag |-> tag, typ |-> typ]

\* The struct types of the model.
StructDecl(t) ==
  CASE t = "TS" -> << FieldDecl("Name", "", "", "string"),
                      FieldDecl("Age", "", "", "int"),
                      FieldDecl("Email", "", "", "string"),
                      FieldDecl("AdditionalData", "", "", "null.JSON") >>
    [] t = "TD" -> << FieldDecl("Name", "name", "", "string"),
                      FieldDecl("Age", "", "", "int"),
                      FieldDecl("AdditionalData", "", "", "null.JSON") >>
    [] t = "TB" -> << FieldDecl("Name", "", "", "string"),
                      FieldDecl("Age", "", "", "int"),
                      FieldDecl("Extra", "", "additional", "types.JSON") >>
    [] t = "TG" -> << FieldDecl("Name", "", "", "string"),
                      FieldDecl("Note", "", "ignore", "string"),
                      FieldDecl("Email", "", "", "string"),
                      FieldDecl("AdditionalData", "", "", "null.JSON") >>
    [] t = "S" -> << FieldDecl("V", "", "", "int") >>
    [] t = "D" -> << FieldDecl("V", "", "", "int") >>
    [] t = "SA" -> << FieldDecl("AdditionalData", "", "", "null.JSON") >>
    [] t = "TN" -> << FieldDecl("Name", "", "", "string"),
                      FieldDecl("Note", "", "", "string"),
                      FieldDecl("AdditionalData", "", "", "null.JSON") >>
    [] t = "TH" -> << FieldDecl("Name", "", "", "string"),
                      FieldDecl("Note", "", "-", "string"),
                      FieldDecl("AdditionalData", "", "", "null.JSON") >>
    [] t = "TK" -> << FieldDecl("Name", "", "", "string"),
                      FieldDecl("Age", "years", "", "int"),
                      FieldDecl("Span", "span", "", "int"),
                      FieldDecl("Email", "", "", "string") >>
    [] t = "TL" -> << FieldDecl("NAME", "", "", "string"),
                      FieldDecl("Age", "", "", "int"),
                      FieldDecl("Years", "years", "", "int"),
                      FieldDecl("Len", "span", "", "int") >>
    [] t = "TX" -> << FieldDecl("Name", "", "", "string"),
                      FieldDecl("AdditionalData", "", "", "string") >>
    [] t = "TF" -> << FieldDecl("FullName", "Name", "", "string"),
                      FieldDecl("Email", "", "", "string"),
                      FieldDecl("AdditionalData", "", "", "null.JSON") >>
    [] t = "TP" -> << FieldDecl("Name", "", "", "string"),
                      FieldDecl("Age", "", "", "string"),
                      FieldDecl("Count", "", "", "int"),
                      FieldDecl("AdditionalData", "", "", "null.JSON") >>
    [] t = "TQ" -> << FieldDecl("Name", "", "", "string"),
                      FieldDecl("Age", "", "", "int"),
                      FieldDecl("Count", "", "", "float64"),
                      FieldDecl("AdditionalData", "", "", "null.JSON") >>
    [] t = "TE" -> << FieldDecl("Name", "", "", "string"),
                      FieldDecl("Street", "", "", "string"),
                      FieldDecl("AdditionalData", "", "", "null.JSON") >>

StructTypes ==
  {"TS", "TD", "TB", "TG", "S", "D", "SA", "TN", "TH", "TK", "TL", "TX", "TF",
   "TP", "TQ", "TE"}

\* The fields of a struct type that are promoted from an embedded pointer to
\* a struct: TE is struct{ Name string; *Address; AdditionalData null.JSON }
\* with Address struct{ Street string }.
EmbeddedPointerFields(t) == IF t = "TE" THEN {2} ELSE {}

\* One fieldInfo per declared field, in declaration order.
buildFieldMetadataDashNotIgnored(t) ==
  LET decl == StructDecl(t) IN
  [i \in 1..Len(decl) |->
     LET f == decl[i]
         isAD == (f.tag = "additional") \/ (f.name = "AdditionalData")
     IN [index |-> <<i>>, name |-> f.name,
         jsonName |-> IF f.json = "-" THEN "" ELSE f.json,
         typ |-> f.typ, canSet |-> TRUE,
         isAdditionalData |-> isAD /\ f.typ \in JSONTypes,
         ignore |-> f.tag = "ignore"]]
buildFieldMetadata(t) ==
  LET decl == StructDecl(t) IN
  [i \in 1..Len(decl) |->
     LET f == decl[i]
         isAD == (f.tag = "additional") \/ (f.name = "AdditionalData")
     IN [index |-> <<i>>, name |-> f.name,
         jsonName |-> IF f.json = "-" THEN "" ELSE f.json,
         typ |-> f.typ, canSet |-> TRUE,
         isAdditionalData |-> isAD /\ f.typ \in JSONTypes,
         ignore |-> f.tag \in {"ignore", "-"}]]

\* An index map of the metadata: key -> position in fields, the last field
\* with a key winning.
IndexBy(fields, key, lower) ==
  LET keyOf(f) == IF lower THEN ToLower(f[key]) ELSE f[key]
      withKey == {i \in 1..Len(fields) : keyOf(fields[i]) # ""}
      keys == {keyOf(fields[i]) : i \in withKey}
  IN [k \in keys |-> CHOOSE i \in withKey :
        /\ keyOf(fields[i]) = k
        /\ \A j \in withKey : keyOf(fields[j]) = k => j <= i]

\* The structMetadata built for a type; additionalDataField is the position of
\* the first AdditionalData field, 0 when the type has none.
getOrBuildMetadata(t) ==
  LET fields == buildFieldMetadata(t)
      ads == {i \in 1..Len(fields) : fields[i].isAdditionalData}
  IN [fields |-> fields,
      fieldsByName |-> IndexBy(fields, "name", FALSE),
      fieldsByJSONName |-> IndexBy(fields, "jsonName", FALSE),
      fieldsByLowerName |-> IndexBy(fields, "name", TRUE),
      fieldsByLowerJSONName |-> IndexBy(fields, "jsonName", TRUE),
      additionalDataField |->
        IF ads = {} THEN 0 ELSE CHOOSE i \in ads : \A j \in ads : i <= j]

\* ------------------------------------------------------------------------
\* State
\* ------------------------------------------------------------------------
VARIABLES
  heap,          \* the Go maps and registry structs: [fmaps, omaps, regs]
  converters,    \* Adapter.converters: the current *converterRegistry
  validators,    \* Adapter.validators: the current *validatorRegistry
  gen,           \* Adapter.gen
  metadataCache, \* Adapter.metadataCache: type -> cached structMetadata
  options,       \* Adapter.options
  writer,        \* per registering goroutine: its position and locals
  call,          \* per adapting goroutine: its Into call's position and locals
  started,       \* registration calls started so far
  committed,     \* the entries stored so far, in the order of the Stores (history)
  log            \* what the Into calls did, in order (history)

vars == <<heap, converters, validators, gen, metadataCache, options,
          writer, call, started, committed, log>>

Writers == {"w1"}
Readers == {"r1"}

\* ------------------------------------------------------------------------
\* The registries.  heap.fmaps are the map[string]Func objects (the global
\* maps and the inner maps of byDst and byPair), heap.omaps the outer byDst
\* and byPair maps (scope key -> an fmaps object), heap.regs the registry
\* structs.  A byDst key is <<dstType>>, a byPair key <<srcType, dstType>>.
\* converters and validators hold positions in heap.regs.
\* ------------------------------------------------------------------------
\* A Func value that is nil.
NilFn == "nil"

\* The entries of a registry, by value.
RegistryValue(h, rid) ==
  LET r == h.regs[rid] IN
  [global |-> h.fmaps[r.global],
   byDst |-> [k \in DOMAIN h.omaps[r.byDst] |-> h.fmaps[h.omaps[r.byDst][k]]],
   byPair |-> [k \in DOMAIN h.omaps[r.byPair] |-> h.fmaps[h.omaps[r.byPair][k]]]]

\* NewWithOptions: two registries of empty maps.
NewHeap ==
  [fmaps |-> <<EmptyMap, EmptyMap>>,
   omaps |-> <<EmptyMap, EmptyMap, EmptyMap, EmptyMap>>,
   regs |-> << [global |-> 1, byDst |-> 1, byPair |-> 2],
               [global |-> 2, byDst |-> 3, byPair |-> 4] >>,
   bmaps |-> <<>>, pool |-> {}]

\* A copy of an outer map that keeps the old inner maps (new[k] = v).
CopyOuterShallow(h, oid) ==
  [h |-> [h EXCEPT !.omaps = Append(@, h.omaps[oid])], id |-> Len(h.omaps) + 1]

\* A copy of an outer map that drops the entries of the old one.
CopyOuterEmpty(h, oid) ==
  [h |-> [h EXCEPT !.omaps = Append(@, EmptyMap)], id |-> Len(h.omaps) + 1]

\* for k, v := range old.byDst { m := make(...); copy v into m; new[k] = m }:
\* a new outer map whose inner maps are new maps with the old entries.
CopyOuter(h, oid) ==
  LET old == h.omaps[oid]
      keys == SetToSeq(DOMAIN old)
      n == Len(h.fmaps)
      pos(k) == CHOOSE i \in 1..Len(keys) : keys[i] = k
      copies == [i \in 1..Len(keys) |-> h.fmaps[old[keys[i]]]]
      newOuter == [k \in DOMAIN old |-> n + pos(k)]
  IN [h |-> [h EXCEPT !.fmaps = @ \o copies, !.omaps = Append(@, newOuter)],
      id |-> Len(h.omaps) + 1]

\* The copy every registration starts with: a new registry struct whose three
\* maps, and their inner maps, are new objects holding the old entries.
CopyRegistry(h, rid) ==
  LET r == h.regs[rid]
      h1 == [h EXCEPT !.fmaps = Append(@, h.fmaps[r.global])]
      d == CopyOuter(h1, r.byDst)
      p == CopyOuter(d.h, r.byPair)
      newReg == [global |-> Len(h1.fmaps), byDst |-> d.id, byPair |-> p.id]
  IN [h |-> [p.h EXCEPT !.regs = Append(@, newReg)], id |-> Len(h.regs) + 1]

\* m[fieldName] = fn on the map object fid.
PutField(h, fid, fieldName, fn) ==
  [h EXCEPT !.fmaps[fid] = Put(@, fieldName, fn)]

\* m := outer[key]; if m == nil { m = make(...); outer[key] = m }; m[fieldName] = fn
PutScoped(h, oid, key, fieldName, fn) ==
  IF key \in DOMAIN h.omaps[oid]
  THEN PutField(h, h.omaps[oid][key], fieldName, fn)
  ELSE [h EXCEPT !.fmaps = Append(@, Put(EmptyMap, fieldName, fn)),
                 !.omaps[oid] = Put(@, key, Len(h.fmaps) + 1)]

\* One registration: what is registered (a converter or a validator), at
\* which scope, for which field.
Entry(kind, scope, st, dt, fieldName, fn) ==
  [kind |-> kind, scope |-> scope, st |-> st, dt |-> dt,
   field |-> fieldName, fn |-> fn]

ScopeKey(e) == IF e.scope = "dst" THEN <<e.dt>> ELSE <<e.st, e.dt>>

\* The insertion that ends the copy in each Register* function.
InsertEntry(h, rid, e) ==
  CASE e.scope = "global" -> PutField(h, h.regs[rid].global, e.field, e.fn)
    [] e.scope = "dst" -> PutScoped(h, h.regs[rid].byDst, ScopeKey(e), e.field, e.fn)
    [] e.scope = "pair" -> PutScoped(h, h.regs[rid].byPair, ScopeKey(e), e.field, e.fn)

\* The merge loops of Batch (for k, v := range b.convGlobal ..., b.convDst ...,
\* b.convPair ...): the batch's entries of one kind are put into the copy.  The
\* helpers of RegistryBatch keep, per scope key and field, the last function
\* given, and so does putting the entries in the order of the helper calls.
RECURSIVE MergeEntriesSkipsPair(_, _, _, _)
MergeEntriesSkipsPair(h, rid, prog, kind) ==
  IF prog = <<>> THEN h
  ELSE LET e == Head(prog)
           h1 == IF e.kind = kind /\ e.scope # "pair" THEN InsertEntry(h, rid, e) ELSE h
       IN MergeEntriesSkipsPair(h1, rid, Tail(prog), kind)
RECURSIVE MergeEntries(_, _, _, _)
MergeEntries(h, rid, prog, kind) ==
  IF prog = <<>> THEN h
  ELSE LET e == Head(prog)
           h1 == IF e.kind = kind THEN InsertEntry(h, rid, e) ELSE h
       IN MergeEntries(h1, rid, Tail(prog), kind)

\* The entries of one kind among the helper calls of a batch, in order.
OfKind(prog, kind) == SelectSeq(prog, LAMBDA e : e.kind = kind)

WriterIdle == [pc |-> "idle", prog |-> <<>>, newC |-> 0, newV |-> 0]

\* ------------------------------------------------------------------------
\* Registration.  Each Register* function is two atomic operations: the Load
\* of the current registry, followed by the goroutine-local copy and insert,
\* and the Store of the new registry, followed by gen.Add(1).
\* ------------------------------------------------------------------------
RegisterLoad(w, e) ==
  /\ writer[w].pc = "idle"
  /\ started < MaxRegs
  /\ LET old == IF e.kind = "conv" THEN converters ELSE validators
         c == CopyRegistry(heap, old)
     IN /\ heap' = InsertEntry(c.h, c.id, e)
        /\ writer' = [writer EXCEPT ![w] =
                        [pc |-> "store", prog |-> <<e>>,
                         newC |-> IF e.kind = "conv" THEN c.id ELSE 0,
                         newV |-> IF e.kind = "val" THEN c.id ELSE 0]]
  /\ started' = started + 1
  /\ UNCHANGED <<converters, validators, gen, metadataCache, options, call,
                 committed, log>>

RegisterConverter(w, fieldName, fn) ==
  RegisterLoad(w, Entry("conv", "global", "", "", fieldName, fn))

RegisterConverterFor(w, dstType, fieldName, fn) ==
  RegisterLoad(w, Entry("conv", "dst", "", dstType, fieldName, fn))

RegisterConverterForPair(w, srcType, dstType, fieldName, fn) ==
  RegisterLoad(w, Entry("conv", "pair", srcType, dstType, fieldName, fn))

RegisterValidator(w, fieldName, fn) ==
  RegisterLoad(w, Entry("val", "global", "", "", fieldName, fn))

RegisterValidatorFor(w, dstType, fieldName, fn) ==
  RegisterLoad(w, Entry("val", "dst", "", dstType, fieldName, fn))

RegisterValidatorForPair(w, srcType, dstType, fieldName, fn) ==
  RegisterLoad(w, Entry("val", "pair", srcType, dstType, fieldName, fn))

\* a.converters.Store(newReg) or a.validators.Store(newReg); a.gen.Add(1)
RegisterStore(w) ==
  /\ writer[w].pc = "store"
  /\ converters' = IF writer[w].newC # 0 THEN writer[w].newC ELSE converters
  /\ validators' = IF writer[w].newV # 0 THEN writer[w].newV ELSE validators
  /\ gen' = gen + 1
  /\ writer' = [writer EXCEPT ![w] = WriterIdle]
  /\ committed' = committed \o writer[w].prog
  /\ UNCHANGED <<heap, metadataCache, options, call, started, log>>

\* ------------------------------------------------------------------------
\* Batch: apply(b) fills the batch; then Load converters, copy and merge;
\* Load validators, copy and merge; Store converters; Store validators and
\* gen.Add(1).  prog is the sequence of helper calls made by apply.
\* ------------------------------------------------------------------------
BatchLoadConverters(w, prog) ==
  /\ writer[w].pc = "idle"
  /\ started < MaxRegs
  /\ LET c == CopyRegistry(heap, converters)
     IN /\ heap' = MergeEntries(c.h, c.id, prog, "conv")
        /\ writer' = [writer EXCEPT ![w] =
                        [pc |-> "batchLoadV", prog |-> prog, newC |-> c.id, newV |-> 0]]
  /\ started' = started + 1
  /\ UNCHANGED <<converters, validators, gen, metadataCache, options, call,
                 committed, log>>

BatchLoadValidators(w) ==
  /\ writer[w].pc = "batchLoadV"
  /\ LET c == CopyRegistry(heap, validators)
     IN /\ heap' = MergeEntries(c.h, c.id, writer[w].prog, "val")
        /\ writer' = [writer EXCEPT ![w].pc = "batchStoreC", ![w].newV = c.id]
  /\ UNCHANGED <<converters, validators, gen, metadataCache, options, call,
                 started, committed, log>>

BatchStoreConverters(w) ==
  /\ writer[w].pc = "batchStoreC"
  /\ converters' = writer[w].newC
  /\ writer' = [writer EXCEPT ![w].pc = "batchStoreV"]
  /\ committed' = committed \o OfKind(writer[w].prog, "conv")
  /\ UNCHANGED <<heap, validators, gen, metadataCache, options, call, started, log>>

BatchStoreValidators(w) ==
  /\ writer[w].pc = "batchStoreV"
  /\ validators' = writer[w].newV
  /\ gen' = gen + 1
  /\ writer' = [writer EXCEPT ![w] = WriterIdle]
  /\ committed' = committed \o OfKind(writer[w].prog, "val")
  /\ UNCHANGED <<heap, converters, metadataCache, options, call, started, log>>

\* ------------------------------------------------------------------------
\* Converter and validator functions.  A function is named by an id; what it
\* computes is fixed.  String values are numbers: 0 is "", 1 and 2 are
\* lower-case words, 11 and 12 the same words in upper case, 9 is "X".
\* ------------------------------------------------------------------------
NoErr == ""

ToUpperStr(n) == IF n \in {1, 2} THEN n + 10 ELSE n
ToLowerStr(n) == IF n \in {11, 12} THEN n - 10 ELSE n

\* fn(src) for a ConverterFunc: [val, err].
CallConverter(fn, src) ==
  CASE fn = "upper" -> \* MapString(strings.ToUpper)
         [val |-> IF src.k = "string" THEN StringVal(ToUpperStr(src.v)) ELSE src,
          err |-> NoErr]
    [] fn = "lower" -> \* MapString(strings.ToLower)
         [val |-> IF src.k = "string" THEN StringVal(ToLowerStr(src.v)) ELSE src,
          err |-> NoErr]
    [] fn = "ident" -> [val |-> src, err |-> NoErr]
    [] fn = "constX" -> [val |-> StringVal(9), err |-> NoErr]
    [] fn = "toInt" -> [val |-> IntVal(src.v), err |-> NoErr]
    [] fn = "retNil" -> [val |-> NilVal, err |-> NoErr]
    [] fn = "convErr" -> [val |-> NilVal, err |-> "convert err"]

\* fn(value) for a ValidatorFunc: the error, NoErr for nil.
CallValidator(fn, val) ==
  CASE fn = "accept" -> NoErr
    [] fn = "reject" -> "invalid"
    [] fn = "nonZero" -> IF IsZero(val) THEN "invalid" ELSE NoErr

\* ------------------------------------------------------------------------
\* Lookups in a loaded registry: reg.global[f], reg.byDst[t][f],
\* reg.byPair[[2]reflect.Type{s, t}][f]; a missing key yields nil.
\* ------------------------------------------------------------------------
LookupField(h, fid, fieldName) ==
  IF fieldName \in DOMAIN h.fmaps[fid] THEN h.fmaps[fid][fieldName] ELSE NilFn

LookupScoped(h, oid, key, fieldName) ==
  IF key \in DOMAIN h.omaps[oid]
  THEN LookupField(h, h.omaps[oid][key], fieldName)
  ELSE NilFn

\* A lookup that prefers the destination scope to the pair scope.
adaptFieldConverterDstFirst(h, rid, fieldName, srcRoot, dstRoot) ==
  LET r == h.regs[rid]
      byPair == LookupScoped(h, r.byPair, <<srcRoot, dstRoot>>, fieldName)
      byDst == LookupScoped(h, r.byDst, <<dstRoot>>, fieldName)
      global == LookupField(h, r.global, fieldName)
  IN IF byDst # NilFn THEN byDst
     ELSE IF byPair # NilFn THEN byPair
     ELSE global

\* The converter adaptField applies: precedence pair > dst > global; NilFn
\* when it falls through to the direct copy.
adaptFieldConverter(h, rid, fieldName, srcRoot, dstRoot) ==
  LET r == h.regs[rid]
      byPair == LookupScoped(h, r.byPair, <<srcRoot, dstRoot>>, fieldName)
      byDst == LookupScoped(h, r.byDst, <<dstRoot>>, fieldName)
      global == LookupField(h, r.global, fieldName)
  IN IF byPair # NilFn THEN byPair
     ELSE IF byDst # NilFn THEN byDst
     ELSE global

\* The validator runValidators applies, with the same precedence.
runValidatorsResolve(h, rid, fieldName, srcRoot, dstRoot) ==
  LET r == h.regs[rid]
      byPair == LookupScoped(h, r.byPair, <<srcRoot, dstRoot>>, fieldName)
      byDst == LookupScoped(h, r.byDst, <<dstRoot>>, fieldName)
      global == LookupField(h, r.global, fieldName)
  IN IF byPair # NilFn THEN byPair
     ELSE IF byDst # NilFn THEN byDst
     ELSE global

\* runValidators: the error of the one validator applied, NoErr without one.
runValidatorsNone(h, rid, val, fieldName, srcRoot, dstRoot) == NoErr
runValidators(h, rid, val, fieldName, srcRoot, dstRoot) ==
  LET fn == runValidatorsResolve(h, rid, fieldName, srcRoot, dstRoot)
  IN IF fn = NilFn THEN NoErr ELSE CallValidator(fn, val)

\* applyConverter: [err, val], val being the destination field afterwards.
applyConverterSetsAnyType(dstField, dstType, fn, srcField) ==
  LET out == CallConverter(fn, srcField) IN
  IF out.err # NoErr THEN [err |-> out.err, val |-> dstField]
  ELSE IF out.val = NilVal THEN [err |-> NoErr, val |-> Zero(dstType)]
  ELSE [err |-> NoErr, val |-> out.val]
applyConverterKeepsOnNil(dstField, dstType, fn, srcField) ==
  LET out == CallConverter(fn, srcField) IN
  IF out.err # NoErr THEN [err |-> out.err, val |-> dstField]
  ELSE IF out.val = NilVal THEN [err |-> NoErr, val |-> dstField]
  ELSE IF ~AssignableTo(out.val.k, dstType)
       THEN [err |-> "type mismatch", val |-> dstField]
  ELSE [err |-> NoErr, val |-> out.val]
applyConverter(dstField, dstType, fn, srcField) ==
  LET out == CallConverter(fn, srcField) IN
  IF out.err # NoErr THEN [err |-> out.err, val |-> dstField]
  ELSE IF out.val = NilVal THEN [err |-> NoErr, val |-> Zero(dstType)]
  ELSE IF ~AssignableTo(out.val.k, dstType)
       THEN [err |-> "type mismatch", val |-> dstField]
  ELSE [err |-> NoErr, val |-> out.val]

\* ------------------------------------------------------------------------
\* JSON: json.Marshal of the remaining fields and json.Unmarshal of a raw
\* value, into interface{} and into a typed field.
\* ------------------------------------------------------------------------
\* json.Marshal(v) for a string or an int.
MarshalValueAsString(val) == JStr(val.v)
MarshalValue(val) == IF val.k = "string" THEN JStr(val.v) ELSE JNum(val.v)

\* json.Unmarshal(raw, &anyVal): a JSON number decodes as float64.
UnmarshalAny(raw) ==
  IF raw.j = "str" THEN StringVal(raw.n) ELSE Scalar("float64", raw.n)

\* json.Unmarshal(raw, ptr) into a field of type typ: [ok, val].  null.JSON
\* and types.JSON implement json.Unmarshaler by keeping a copy of the raw
\* bytes, whatever JSON value they hold.
UnmarshalTyped(raw, typ) ==
  CASE typ = "string" /\ raw.j = "str" -> [ok |-> TRUE, val |-> StringVal(raw.n)]
    [] typ \in NumericTypes /\ raw.j = "num" -> [ok |-> TRUE, val |-> Scalar(typ, raw.n)]
    [] typ = "null.JSON" -> [ok |-> TRUE, val |-> NullJSONFrom(ScalarBytes(raw))]
    [] typ = "types.JSON" -> [ok |-> TRUE, val |-> BoilerJSON(ScalarBytes(raw))]
    [] OTHER -> [ok |-> FALSE, val |-> Zero(typ)]

\* ------------------------------------------------------------------------
\* Into
\* ------------------------------------------------------------------------
PreferFields == 0
PreferAdditionalData == 1

DefaultOptions ==
  [IncludeZeroValues |-> FALSE, CaseInsensitiveAdditionalData |-> FALSE,
   OverwritePolicy |-> PreferFields, DisableMarshalAdditionalData |-> FALSE,
   DisableUnmarshalAdditionalData |-> FALSE]

\* The error Into returns: fmt.Errorf("<op>[ <field>]: %w", cause); NoError
\* for nil.
NoError == [op |-> "", field |-> "", cause |-> NoErr]
WrapErr(op, fieldName, cause) == [op |-> op, field |-> fieldName, cause |-> cause]

CallIdle ==
  [pc |-> "idle", dt |-> "", st |-> "", src |-> <<>>, dst |-> <<>>, dst0 |-> <<>>,
   i |-> 0,
   hasAD |-> FALSE, processed |-> {}, dstSet |-> {}, reg |-> 0,
   keys |-> {}, sf |-> "", canon |-> "", err |-> NoError,
   todo |-> <<>>, built |-> <<>>, pm |-> 0, dm |-> 0, got |-> <<>>, n |-> 0,
   dk |-> "", sk |-> "", same |-> FALSE]

\* What a struct value holds for a field beneath an embedded pointer that is
\* nil: there is no such field to read or set.
NilEmbedded == [k |-> "nilembedded", v |-> 0, b |-> NilBytes]

\* safeFieldByIndex(val, index): the field and true, or false when the way
\* to it goes through a nil embedded pointer.
safeFieldByIndex(val, i) == [val |-> val[i], ok |-> val[i] # NilEmbedded]

\* reflect.Value.FieldByIndex panics when the way to the field goes through
\* a nil embedded pointer; nothing recovers, so the call never returns.
FieldByIndexPanics(val, i) == val[i] = NilEmbedded
Panic(c) == [c EXCEPT !.pc = "panic"]

\* A write to the destination struct: when dst and src point to the same
\* struct it is a write to the source as well.
SameStructAlways(c) == [c EXCEPT !.src = c.dst]
SameStruct(c) == IF c.same THEN [c EXCEPT !.src = c.dst] ELSE c

\* The zero value of a struct type: its embedded pointers are nil.
ZeroStruct(t) ==
  [i \in 1..Len(StructDecl(t)) |->
     IF i \in EmbeddedPointerFields(t) THEN NilEmbedded
     ELSE Zero(StructDecl(t)[i].typ)]

\* Where the direct loop of adaptStruct goes after destination field i.
AfterDirectThenMarshal(c) ==
  IF c.i < Len(metadataCache[c.dt].fields)
  THEN [c EXCEPT !.i = c.i + 1]
  ELSE [c EXCEPT !.pc = "marshal", !.i = 0]
AfterDirect(c) ==
  IF c.i < Len(metadataCache[c.dt].fields)
  THEN [c EXCEPT !.i = c.i + 1]
  ELSE [c EXCEPT !.pc = "unmarshal", !.i = 0]

\* return err from adaptStruct: the deferred putBoolMap calls run.
ReturnOnlyNil(c, err) ==
  IF err = NoError THEN [c EXCEPT !.pc = "done", !.err = err]
  ELSE [c EXCEPT !.pc = "unmarshal", !.i = 0]
Return(c, err) == [c EXCEPT !.pc = "done", !.err = err]

\* An entry of the log: what was done (ev) in which phase, for which field,
\* with which function, and the registry used; load tells whether the
\* registry was loaded from the Adapter in this step ("conv", "val") or not.
\* val is the value the step left in the destination field (for the start of
\* a call, the source value) and err the error it met ("skipped" when a key of
\* the source AdditionalData was dropped).
Event(r, ev, phase, fieldName, fn, load, rid, val, err) ==
  [r |-> r, ev |-> ev, phase |-> phase, field |-> fieldName, fn |-> fn,
   load |-> load, reg |-> rid, val |-> val, err |-> err]

\* Into(dst, src) with two pointers to structs, up to the direct loop of
\* adaptStruct: the metadata of both types, hasAD and the two scratch maps.
IntoStart(r, dstType, srcType, dstVal, srcVal) ==
  /\ call[r].pc = "idle"
  /\ metadataCache' = [t \in DOMAIN metadataCache \cup {dstType, srcType} |->
                         IF t \in DOMAIN metadataCache THEN metadataCache[t]
                         ELSE getOrBuildMetadata(t)]
  /\ call' = [call EXCEPT ![r] =
       [CallIdle EXCEPT !.pc = "direct", !.dt = dstType, !.st = srcType,
                        !.src = srcVal, !.dst = dstVal, !.dst0 = dstVal, !.i = 1,
                        !.hasAD = metadataCache'[srcType].additionalDataField # 0
                                  \/ metadataCache'[dstType].additionalDataField # 0]]
  /\ log' = Append(log, Event(r, "start", "direct", "", NilFn, "", 0, srcVal, NoErr))
  /\ UNCHANGED <<heap, converters, validators, gen, options, writer, started,
                 committed>>

\* Into(x, x): dst and src are the same pointer, which Into does not check.
IntoSelf(r, typ, val) ==
  /\ call[r].pc = "idle"
  /\ metadataCache' = [t \in DOMAIN metadataCache \cup {typ} |->
                         IF t \in DOMAIN metadataCache THEN metadataCache[t]
                         ELSE getOrBuildMetadata(t)]
  /\ call' = [call EXCEPT ![r] =
       [CallIdle EXCEPT !.pc = "direct", !.dt = typ, !.st = typ,
                        !.src = val, !.dst = val, !.dst0 = val, !.i = 1,
                        !.same = TRUE,
                        !.hasAD = metadataCache'[typ].additionalDataField # 0]]
  /\ log' = Append(log, Event(r, "start", "direct", "", NilFn, "", 0, val, NoErr))
  /\ UNCHANGED <<heap, converters, validators, gen, options, writer, started,
                 committed>>

\* Into(a2, b) called with the destination b of the call that has just
\* returned nil as its source, and a zero value of the type of that call's
\* source as its destination: the second half of a round trip.
IntoBack(r) ==
  /\ call[r].pc = "done"
  /\ call[r].err = NoError
  /\ Cardinality({i \in 1..Len(log) : log[i].r = r /\ log[i].ev = "start"}) = 1
  /\ LET c == call[r] IN
     /\ call' = [call EXCEPT ![r] =
          [CallIdle EXCEPT !.pc = "direct", !.dt = c.st, !.st = c.dt,
                           !.src = c.dst, !.dst = ZeroStruct(c.st),
                           !.dst0 = ZeroStruct(c.st), !.i = 1,
                           !.hasAD = metadataCache[c.st].additionalDataField # 0
                                     \/ metadataCache[c.dt].additionalDataField # 0]]
     /\ log' = Append(log, Event(r, "start", "direct", "", NilFn, "", 0, c.dst, NoErr))
  /\ UNCHANGED <<heap, converters, validators, gen, metadataCache, options,
                 writer, started, committed>>

\* The source field matching destination field df: by name, else by json
\* name; 0 when there is none.
MatchSource(srcMeta, df) ==
  IF df.name \in DOMAIN srcMeta.fieldsByName THEN srcMeta.fieldsByName[df.name]
  ELSE IF df.jsonName # "" /\ df.jsonName \in DOMAIN srcMeta.fieldsByJSONName
       THEN srcMeta.fieldsByJSONName[df.jsonName]
  ELSE 0

\* One iteration of the direct loop of adaptStruct, up to the Load of the
\* validators in runValidators: the skips, the Load of the converters in
\* adaptField, the converter or the direct copy.
DirectField(r) ==
  /\ call[r].pc = "direct"
  /\ LET c == call[r]
         dstMeta == metadataCache[c.dt]
         srcMeta == metadataCache[c.st]
         df == dstMeta.fields[c.i]
         si == MatchSource(srcMeta, df)
         sf == srcMeta.fields[si]
         fn == adaptFieldConverter(heap, converters, df.name, c.st, c.dt)
         srcField == c.src[si]
         marked == IF c.hasAD
                   THEN [c EXCEPT !.processed = @ \cup {sf.name},
                                  !.dstSet = @ \cup {df.name}]
                   ELSE c
     IN IF ~df.canSet \/ df.isAdditionalData \/ df.ignore \/ si = 0
        THEN /\ call' = [call EXCEPT ![r] = AfterDirect(c)]
             /\ log' = log
        ELSE IF sf.isAdditionalData \/ sf.ignore
        THEN /\ call' = [call EXCEPT ![r] = AfterDirect(
                            IF c.hasAD THEN [c EXCEPT !.processed = @ \cup {sf.name}]
                            ELSE c)]
             /\ log' = log
        ELSE IF ~safeFieldByIndex(c.src, si).ok
        THEN /\ call' = [call EXCEPT ![r] = AfterDirect(c)]
             /\ log' = log
        ELSE IF FieldByIndexPanics(c.dst, c.i)
        THEN /\ call' = [call EXCEPT ![r] = Panic(c)]
             /\ log' = Append(log, Event(r, "panic", "direct", df.name, NilFn, "", 0,
                                          NilVal, NoErr))
        ELSE IF fn # NilFn
        THEN LET res == applyConverter(c.dst[c.i], df.typ, fn, srcField) IN
             /\ log' = Append(log, Event(r, "convert", "direct", df.name, fn, "conv",
                                               converters, res.val, res.err))
             /\ call' = [call EXCEPT ![r] =
                  IF res.err # NoErr
                  THEN Return(c, WrapErr("adapting field", df.name, res.err))
                  ELSE SameStruct([c EXCEPT !.pc = "directValidate",
                                            !.dst[c.i] = res.val, !.sf = sf.name])]
        ELSE IF AssignableTo(sf.typ, df.typ)
        THEN /\ log' = Append(log, Event(r, "copy", "direct", df.name, NilFn, "conv",
                                          converters, srcField, NoErr))
             /\ call' = [call EXCEPT ![r] =
                  SameStruct([c EXCEPT !.pc = "directValidate", !.dst[c.i] = srcField,
                                       !.sf = sf.name])]
        ELSE IF ConvertibleTo(sf.typ, df.typ)
        THEN /\ log' = Append(log, Event(r, "copy", "direct", df.name, NilFn, "conv",
                                          converters, Convert(srcField, df.typ), NoErr))
             /\ call' = [call EXCEPT ![r] =
                  SameStruct([c EXCEPT !.pc = "directValidate",
                                       !.dst[c.i] = Convert(srcField, df.typ),
                                       !.sf = sf.name])]
        ELSE /\ log' = Append(log, Event(r, "skip", "direct", df.name, NilFn, "conv",
                                          converters, c.dst[c.i], NoErr))
             /\ call' = [call EXCEPT ![r] = AfterDirect(marked)]
  /\ UNCHANGED <<heap, converters, validators, gen, metadataCache, options,
                 writer, started, committed>>

\* The rest of the iteration: the Load of the validators in runValidators, the
\* validator, and the bookkeeping in processed and dstSet.
DirectValidate(r) ==
  /\ call[r].pc = "directValidate"
  /\ LET c == call[r]
         df == metadataCache[c.dt].fields[c.i]
         fn == runValidatorsResolve(heap, validators, df.name, c.st, c.dt)
         err == runValidators(heap, validators, c.dst[c.i], df.name, c.st, c.dt)
         marked == IF c.hasAD
                   THEN [c EXCEPT !.processed = @ \cup {c.sf},
                                  !.dstSet = @ \cup {df.name}]
                   ELSE c
     IN /\ log' = Append(log, Event(r, "validate", "direct", df.name, fn, "val",
                                     validators, c.dst[c.i], err))
        /\ call' = [call EXCEPT ![r] =
             IF err # NoErr THEN Return(c, WrapErr("adapting field", df.name, err))
             ELSE AfterDirect([marked EXCEPT !.pc = "direct"])]
  /\ UNCHANGED <<heap, converters, validators, gen, metadataCache, options,
                 writer, started, committed>>

\* The bytes of a source AdditionalData value that unmarshalAdditionalData
\* decodes; NilBytes when it returns nil at once (null.JSON that is not
\* Valid, an empty types.JSON).
RawBytesSkipsInvalid(ad) ==
  IF ad.b.st = "bad" \/ (ad.k = "null.JSON" /\ ad.v = 0) THEN NilBytes ELSE ad.b
RawBytes(ad) ==
  IF ad.k = "null.JSON" THEN (IF ad.v = 0 THEN NilBytes ELSE ad.b)
  ELSE ad.b

\* After unmarshalAdditionalData returned nil: processed["AdditionalData"].
AfterUnmarshal(c) ==
  [c EXCEPT !.pc = "marshal", !.keys = {},
            !.processed = IF c.hasAD THEN @ \cup {"AdditionalData"} ELSE @]

\* The next iteration of the loop over the decoded keys, or its end.
AfterKeyEndsLoop(c, k) == AfterUnmarshal(c)
AfterKeyRetries(c, k) == [c EXCEPT !.pc = "unmarshalKey"]
AfterKey(c, k) ==
  IF c.keys \ {k} = {} THEN AfterUnmarshal(c)
  ELSE [c EXCEPT !.pc = "unmarshalKey", !.keys = @ \ {k}]

\* The unmarshal phase of adaptStruct up to the loop over the keys: the
\* decoding of the source AdditionalData and the Load of the converters.
Unmarshal(r) ==
  /\ call[r].pc = "unmarshal"
  /\ LET c == call[r]
         srcMeta == metadataCache[c.st]
         raw == RawBytes(c.src[srcMeta.additionalDataField])
     IN IF srcMeta.additionalDataField = 0 \/ options.DisableUnmarshalAdditionalData
        THEN /\ call' = [call EXCEPT ![r] = [c EXCEPT !.pc = "marshal"]]
             /\ log' = log
        ELSE /\ log' = Append(log, Event(r, "phase", "unmarshal", "", NilFn,
                                         IF raw.st \in {"obj", "null"} THEN "conv" ELSE "",
                                         IF raw.st \in {"obj", "null"} THEN converters ELSE 0,
                                         NilVal,
                                         IF raw.st \in {"bad", "scalar"} THEN "invalid JSON"
                                         ELSE NoErr))
             /\ call' = [call EXCEPT ![r] =
                  CASE raw.st \in {"nil", "null"} -> AfterUnmarshal(c)
                    [] raw.st \in {"bad", "scalar"} ->
                         Return(c, WrapErr("unmarshaling AdditionalData", "", "invalid JSON"))
                    [] raw.st = "obj" ->
                         IF DOMAIN raw.obj = {} THEN AfterUnmarshal(c)
                         ELSE [c EXCEPT !.pc = "unmarshalKey", !.reg = converters,
                                        !.keys = DOMAIN raw.obj]]
  /\ UNCHANGED <<heap, converters, validators, gen, metadataCache, options,
                 writer, started, committed>>

\* lookup(key) of unmarshalAdditionalData: the position of the destination
\* field, 0 when there is none.
lookup(dstMeta, key, lookupInsensitive) ==
  IF ~lookupInsensitive
  THEN IF key \in DOMAIN dstMeta.fieldsByName THEN dstMeta.fieldsByName[key]
       ELSE IF key \in DOMAIN dstMeta.fieldsByJSONName THEN dstMeta.fieldsByJSONName[key]
       ELSE 0
  ELSE IF ToLower(key) \in DOMAIN dstMeta.fieldsByLowerName
       THEN dstMeta.fieldsByLowerName[ToLower(key)]
       ELSE IF ToLower(key) \in DOMAIN dstMeta.fieldsByLowerJSONName
       THEN dstMeta.fieldsByLowerJSONName[ToLower(key)]
       ELSE 0

\* The overwrite policy check of the loop: whether a key is dropped because
\* its destination field was already set.
skipOverwriteNever(policy, dstFieldsSet, canon) == FALSE
skipOverwriteAlways(policy, dstFieldsSet, canon) == canon \in dstFieldsSet
skipOverwrite(policy, dstFieldsSet, canon) ==
  policy = PreferFields /\ canon \in dstFieldsSet

\* Whether the result of a converter is assigned to the destination field in
\* the unmarshal phase: err == nil && converted != nil and the type of the
\* value is assignable to the field's type.
overflowConvertedAnyType(out, typ) == out.err = NoErr /\ out.val # NilVal
overflowConverted(out, typ) ==
  out.err = NoErr /\ out.val # NilVal /\ AssignableTo(out.val.k, typ)

\* One iteration of the loop over the decoded keys (for k, raw := range
\* fields, in any order), up to the Load of the validators.
UnmarshalKey(r) ==
  /\ call[r].pc = "unmarshalKey"
  /\ \E k \in call[r].keys :
       LET c == call[r]
           dstMeta == metadataCache[c.dt]
           srcMeta == metadataCache[c.st]
           raw == RawBytes(c.src[srcMeta.additionalDataField]).obj[k]
           fi == lookup(dstMeta, k, options.CaseInsensitiveAdditionalData)
           f == dstMeta.fields[fi]
           canon == f.name
           fn == LookupField(heap, heap.regs[c.reg].global, f.name)
           out == CallConverter(fn, UnmarshalAny(raw))
           converted == overflowConverted(out, f.typ)
           dec == UnmarshalTyped(raw, f.typ)
       IN IF fi = 0 \/ ~f.canSet \/ f.ignore
          THEN /\ call' = [call EXCEPT ![r] = AfterKey(c, k)]
               /\ log' = log
          ELSE IF skipOverwrite(options.OverwritePolicy, c.dstSet, canon)
          THEN /\ call' = [call EXCEPT ![r] = AfterKey(c, k)]
               /\ log' = Append(log, Event(r, "keep", "unmarshal", canon, NilFn, "", c.reg,
                                            c.dst[fi], NoErr))
          ELSE IF FieldByIndexPanics(c.dst, fi)
          THEN /\ call' = [call EXCEPT ![r] = Panic(c)]
               /\ log' = Append(log, Event(r, "panic", "unmarshal", canon, NilFn, "", c.reg,
                                            NilVal, NoErr))
          ELSE IF fn # NilFn
          THEN /\ log' = Append(log, Event(r, "convert", "unmarshal", canon, fn, "", c.reg,
                                            IF converted THEN out.val ELSE c.dst[fi],
                                            IF converted THEN NoErr ELSE "skipped"))
               /\ call' = [call EXCEPT ![r] =
                    IF converted
                    THEN SameStruct([c EXCEPT !.pc = "unmarshalValidate",
                                              !.dst[fi] = out.val,
                                              !.i = fi, !.sf = k, !.canon = canon])
                    ELSE AfterKey(c, k)]
          ELSE /\ log' = Append(log, Event(r, "decode", "unmarshal", canon, NilFn, "", c.reg,
                                            IF dec.ok THEN dec.val ELSE c.dst[fi],
                                            IF dec.ok THEN NoErr ELSE "skipped"))
               /\ call' = [call EXCEPT ![r] =
                    IF dec.ok
                    THEN SameStruct([c EXCEPT !.pc = "unmarshalValidate",
                                              !.dst[fi] = dec.val,
                                              !.i = fi, !.sf = k, !.canon = canon])
                    ELSE AfterKey(c, k)]
  /\ UNCHANGED <<heap, converters, validators, gen, metadataCache, options,
                 writer, started, committed>>

\* The rest of the iteration: the Load of the validators in runValidators
\* (called with reflect.TypeOf(struct{}{}) as the source type), the
\* validator, and dstFieldsSet[canon] = true.
UnmarshalValidate(r) ==
  /\ call[r].pc = "unmarshalValidate"
  /\ LET c == call[r]
         fn == runValidatorsResolve(heap, validators, c.canon, "struct{}", c.dt)
         err == runValidators(heap, validators, c.dst[c.i], c.canon, "struct{}", c.dt)
     IN /\ log' = Append(log, Event(r, "validate", "unmarshal", c.canon, fn, "val",
                                     validators, c.dst[c.i], err))
        /\ call' = [call EXCEPT ![r] =
             IF err # NoErr
             THEN Return(c, WrapErr("unmarshaling AdditionalData", "", err))
             ELSE AfterKey([c EXCEPT !.dstSet = @ \cup {c.canon}], c.sf)]
  /\ UNCHANGED <<heap, converters, validators, gen, metadataCache, options,
                 writer, started, committed>>

\* The map marshalRemainingFields collects: source field name -> value.
RemainingUnprocessedOrNot(srcMeta, srcVal, processed, includeZero) ==
  LET fields == srcMeta.fields
      kept == {i \in 1..Len(fields) :
                 /\ ~(fields[i].isAdditionalData \/ fields[i].ignore)
                 /\ (includeZero \/ ~IsZero(srcVal[i]))}
  IN [n \in {fields[i].name : i \in kept} |->
        srcVal[CHOOSE i \in kept : fields[i].name = n]]
RemainingWithZeros(srcMeta, srcVal, processed, includeZero) ==
  LET fields == srcMeta.fields
      kept == {i \in 1..Len(fields) :
                 /\ ~(fields[i].isAdditionalData \/ fields[i].ignore)
                 /\ fields[i].name \notin processed}
  IN [n \in {fields[i].name : i \in kept} |->
        srcVal[CHOOSE i \in kept : fields[i].name = n]]
Remaining(srcMeta, srcVal, processed, includeZero) ==
  LET fields == srcMeta.fields
      kept == {i \in 1..Len(fields) :
                 /\ ~(fields[i].isAdditionalData \/ fields[i].ignore)
                 /\ fields[i].name \notin processed
                 /\ safeFieldByIndex(srcVal, i).ok
                 /\ (includeZero \/ ~IsZero(srcVal[i]))}
      names == {fields[i].name : i \in kept}
  IN [n \in names |->
        srcVal[CHOOSE i \in kept : /\ fields[i].name = n
                                   /\ \A j \in kept : fields[j].name = n => j <= i]]

\* marshalRemainingFields: the destination AdditionalData value it sets.
marshalRemainingFieldsAlwaysEncoded(adType, srcMeta, srcVal, processed, includeZero) ==
  LET remaining == Remaining(srcMeta, srcVal, processed, includeZero)
      bytes == ObjBytes([n \in DOMAIN remaining |-> MarshalValue(remaining[n])])
  IN IF adType = "null.JSON" THEN NullJSONFrom(bytes) ELSE BoilerJSON(bytes)
marshalRemainingFields(adType, srcMeta, srcVal, processed, includeZero) ==
  LET remaining == Remaining(srcMeta, srcVal, processed, includeZero)
      bytes == ObjBytes([n \in DOMAIN remaining |-> MarshalValue(remaining[n])])
  IN IF DOMAIN remaining = {}
     THEN (IF adType = "null.JSON" THEN NullJSONZero ELSE BoilerJSON(NilBytes))
     ELSE (IF adType = "null.JSON" THEN NullJSONFrom(bytes) ELSE BoilerJSON(bytes))

\* The marshal phase of adaptStruct and its return.
Marshal(r) ==
  /\ call[r].pc = "marshal"
  /\ LET c == call[r]
         dstMeta == metadataCache[c.dt]
         srcMeta == metadataCache[c.st]
         ad == dstMeta.additionalDataField
     IN IF ad = 0 \/ options.DisableMarshalAdditionalData
        THEN /\ call' = [call EXCEPT ![r] = Return(c, NoError)]
             /\ log' = log
        ELSE /\ log' = Append(log, Event(r, "phase", "marshal", "", NilFn, "", 0, NilVal, NoErr))
             /\ call' = [call EXCEPT ![r] =
                  Return(SameStruct([c EXCEPT !.dst[ad] =
                            marshalRemainingFields(dstMeta.fields[ad].typ, srcMeta,
                                                   c.src, c.processed,
                                                   options.IncludeZeroValues)]),
                         NoError)]
  /\ UNCHANGED <<heap, converters, validators, gen, metadataCache, options,
                 writer, started, committed>>

\* ------------------------------------------------------------------------
\* getOrBuildMetadata step by step: the Load of the cache, the build of a
\* new structMetadata on a miss, and the LoadOrStore that publishes it or
\* yields the entry another goroutine stored first.  A call record uses todo
\* for the types its operation still looks up and built for the instance it
\* has built and not yet offered to the cache.
\* ------------------------------------------------------------------------
\* The instance a goroutine allocates for a type: the metadata of the type
\* with the identity id of the allocation.
NewMetadataNoFields(t, id) ==
  [id |-> id] @@ [getOrBuildMetadata(t) EXCEPT !.fields = <<>>]
NewMetadata(t, id) == [id |-> id] @@ getOrBuildMetadata(t)

\* sync.Map.LoadOrStore(typ, meta): [cache, actual, loaded].
StoreAlways(cache, typ, meta) ==
  [cache |-> Put(cache, typ, meta), actual |-> meta, loaded |-> typ \in DOMAIN cache]
LoadOrStore(cache, typ, meta) ==
  IF typ \in DOMAIN cache
  THEN [cache |-> cache, actual |-> cache[typ], loaded |-> TRUE]
  ELSE [cache |-> Put(cache, typ, meta), actual |-> meta, loaded |-> FALSE]

\* An example given to WarmMetadata: nil, a struct value ("struct"), a
\* pointer to a struct ("ptr"), or a value of another kind ("other").
Example(kind, t) == [kind |-> kind, typ |-> t]

\* The types WarmMetadata calls getOrBuildMetadata for, in order.
RECURSIVE WarmTypes(_)
WarmTypes(examples) ==
  IF examples = <<>> THEN <<>>
  ELSE (IF Head(examples).kind \in {"struct", "ptr"} THEN <<Head(examples).typ>>
        ELSE <<>>) \o WarmTypes(Tail(examples))

\* After getOrBuildMetadata returned: the next lookup of the operation, or
\* the return of WarmMetadata, or the direct loop of adaptStruct.
AfterMeta(c, cache) ==
  LET rest == Tail(c.todo) IN
  IF rest # <<>> THEN [c EXCEPT !.pc = "metaLoad", !.todo = rest, !.built = <<>>]
  ELSE IF c.dt = "" THEN [c EXCEPT !.pc = "done", !.todo = rest, !.built = <<>>]
  ELSE [c EXCEPT !.pc = "direct", !.todo = rest, !.built = <<>>, !.i = 1,
                 !.hasAD = cache[c.st].additionalDataField # 0
                           \/ cache[c.dt].additionalDataField # 0]

\* WarmMetadata(examples...) up to its first getOrBuildMetadata.
WarmMetadata(g, examples) ==
  /\ call[g].pc = "idle"
  /\ call' = [call EXCEPT ![g] =
       IF WarmTypes(examples) = <<>> THEN [CallIdle EXCEPT !.pc = "done"]
       ELSE [CallIdle EXCEPT !.pc = "metaLoad", !.todo = WarmTypes(examples)]]
  /\ log' = Append(log, Event(g, "warm", "metadata", "", NilFn, "", 0, NilVal, NoErr))
  /\ UNCHANGED <<heap, converters, validators, gen, metadataCache, options, writer,
                 started, committed>>

\* Into(dst, src) up to the first getOrBuildMetadata of adaptStruct.
IntoMeta(g, dstType, srcType, dstVal, srcVal) ==
  /\ call[g].pc = "idle"
  /\ call' = [call EXCEPT ![g] =
       [CallIdle EXCEPT !.pc = "metaLoad", !.todo = <<dstType, srcType>>,
                        !.dt = dstType, !.st = srcType,
                        !.src = srcVal, !.dst = dstVal, !.dst0 = dstVal]]
  /\ log' = Append(log, Event(g, "start", "direct", "", NilFn, "", 0, srcVal, NoErr))
  /\ UNCHANGED <<heap, converters, validators, gen, metadataCache, options, writer,
                 started, committed>>

\* a.metadataCache.Load(typ): on a hit getOrBuildMetadata returns the entry.
MetaLoad(g) ==
  /\ call[g].pc = "metaLoad"
  /\ LET c == call[g]
         typ == Head(c.todo)
     IN IF typ \in DOMAIN metadataCache
        THEN /\ log' = Append(log, Event(g, "meta", "metadata", typ, NilFn, "hit", 0,
                                         metadataCache[typ], NoErr))
             /\ call' = [call EXCEPT ![g] = AfterMeta(c, metadataCache)]
        ELSE /\ log' = log
             /\ call' = [call EXCEPT ![g] = [c EXCEPT !.pc = "metaBuild"]]
  /\ UNCHANGED <<heap, converters, validators, gen, metadataCache, options, writer,
                 started, committed>>

\* The build of a new structMetadata, local to the goroutine.
MetaBuild(g) ==
  /\ call[g].pc = "metaBuild"
  /\ LET c == call[g]
         typ == Head(c.todo)
         id == 1 + Cardinality({i \in 1..Len(log) : log[i].ev = "build"})
         meta == NewMetadata(typ, id)
     IN /\ log' = Append(log, Event(g, "build", "metadata", typ, NilFn, "", 0, meta, NoErr))
        /\ call' = [call EXCEPT ![g] = [c EXCEPT !.pc = "metaStore", !.built = meta]]
  /\ UNCHANGED <<heap, converters, validators, gen, metadataCache, options, writer,
                 started, committed>>

\* actual, _ := a.metadataCache.LoadOrStore(typ, meta); return actual
MetaLoadOrStore(g) ==
  /\ call[g].pc = "metaStore"
  /\ LET c == call[g]
         typ == Head(c.todo)
         res == LoadOrStore(metadataCache, typ, c.built)
     IN /\ metadataCache' = res.cache
        /\ log' = Append(log, Event(g, "meta", "metadata", typ, NilFn,
                                    IF res.loaded THEN "lost" ELSE "stored", 0,
                                    res.actual, NoErr))
        /\ call' = [call EXCEPT ![g] = AfterMeta(c, res.cache)]
  /\ UNCHANGED <<heap, converters, validators, gen, options, writer, started,
                 committed>>

\* ------------------------------------------------------------------------
\* The scratch maps of adaptStruct: getBoolMap and putBoolMap on
\* Adapter.boolMapPool.  heap.bmaps holds the map[string]bool objects ever
\* made (as the sets of their keys) and heap.pool the objects the pool holds.
\* A call record has in pm and dm the objects of processed and dstSet (0 for
\* nil), in got what each getBoolMap of the call handed out, and in n the
\* number of calls its goroutine has made before it.  While a
\* call has an object, the keys it writes are in processed and dstSet of its
\* record; putBoolMap gives the object these keys.
\* ------------------------------------------------------------------------
\* What sync.Pool.Get leaves in the pool when it yields the object id.
PoolGetKeepsItem(pool, id) == pool
PoolGet(pool, id) == pool \ {id}

\* for k := range pooled { delete(pooled, k) }
ClearMap(keys) == {}

\* Into(dst, src) up to the first getBoolMap of adaptStruct: the metadata of
\* both types and hasAD.
IntoPool(g, dstType, srcType, dstVal, srcVal) ==
  /\ call[g].pc \in {"idle", "returned"}
  /\ metadataCache' = [t \in DOMAIN metadataCache \cup {dstType, srcType} |->
                         IF t \in DOMAIN metadataCache THEN metadataCache[t]
                         ELSE getOrBuildMetadata(t)]
  /\ LET hasAD == metadataCache'[srcType].additionalDataField # 0
                  \/ metadataCache'[dstType].additionalDataField # 0
     IN call' = [call EXCEPT ![g] =
          [CallIdle EXCEPT !.pc = IF hasAD THEN "getProcessed" ELSE "direct",
                           !.dt = dstType, !.st = srcType,
                           !.src = srcVal, !.dst = dstVal, !.dst0 = dstVal, !.i = 1,
                           !.hasAD = hasAD, !.n = call[g].n + 1]]
  /\ UNCHANGED <<heap, converters, validators, gen, options, writer, started,
                 committed, log>>

\* processed = a.getBoolMap(capHint), then dstSet = a.getBoolMap(capHint):
\* boolMapPool.Get yields an object of the pool, which is cleared, or nil
\* (an empty pool, or a pool whose objects this goroutine does not see), and
\* then a new map is made.
GetBoolMap(g) ==
  /\ call[g].pc \in {"getProcessed", "getDstSet"}
  /\ LET c == call[g]
         first == c.pc = "getProcessed"
         next == IF first THEN "getDstSet" ELSE "direct"
         new == Len(heap.bmaps) + 1
     IN \/ \E id \in heap.pool :
             /\ heap' = [heap EXCEPT !.pool = PoolGet(@, id),
                                     !.bmaps[id] = ClearMap(@)]
             /\ call' = [call EXCEPT ![g] =
                  [c EXCEPT !.pc = next,
                            !.pm = IF first THEN id ELSE @,
                            !.dm = IF first THEN @ ELSE id,
                            !.got = Append(@, [id |-> id, pooled |-> TRUE,
                                               before |-> heap.bmaps[id],
                                               keys |-> heap'.bmaps[id]])]]
        \/ /\ heap' = [heap EXCEPT !.bmaps = Append(@, {})]
           /\ call' = [call EXCEPT ![g] =
                [c EXCEPT !.pc = next,
                          !.pm = IF first THEN new ELSE @,
                          !.dm = IF first THEN @ ELSE new,
                          !.got = Append(@, [id |-> new, pooled |-> FALSE,
                                             before |-> {}, keys |-> {}])]]
  /\ UNCHANGED <<converters, validators, gen, metadataCache, options, writer,
                 started, committed, log>>

\* The deferred function of adaptStruct, one putBoolMap at a time: processed
\* first, then dstSet; after both, the call has returned.
PutBoolMap(g) ==
  /\ call[g].pc = "done"
  /\ LET c == call[g] IN
     IF c.pm # 0
     THEN /\ heap' = [heap EXCEPT !.pool = @ \cup {c.pm}, !.bmaps[c.pm] = c.processed]
          /\ call' = [call EXCEPT ![g] = [c EXCEPT !.pm = 0]]
     ELSE IF c.dm # 0
     THEN /\ heap' = [heap EXCEPT !.pool = @ \cup {c.dm}, !.bmaps[c.dm] = c.dstSet]
          /\ call' = [call EXCEPT ![g] = [c EXCEPT !.dm = 0, !.pc = "returned"]]
     ELSE /\ heap' = heap
          /\ call' = [call EXCEPT ![g] = [c EXCEPT !.pc = "returned"]]
  /\ UNCHANGED <<converters, validators, gen, metadataCache, options, writer,
                 started, committed, log>>

\* ------------------------------------------------------------------------
\* Specifications
\* ------------------------------------------------------------------------
\* NewWithOptions(opts...)
NewWithOptions(opts) ==
  /\ heap = NewHeap
  /\ converters = 1
  /\ validators = 2
  /\ gen = 1
  /\ metadataCache = EmptyMap
  /\ options = opts
  /\ writer = [w \in Writers |-> WriterIdle]
  /\ call = [r \in Readers |-> CallIdle]
  /\ started = 0
  /\ committed = <<>>
  /\ log = <<>>

\* Source values of the types TS and TD.
SourceTS(name, age, email, ad) == <<StringVal(name), IntVal(age), StringVal(email), ad>>
SourceTD(name, age, ad) == <<StringVal(name), IntVal(age), ad>>

\* --- Spec: one registering goroutine and one adapting goroutine, running
\* concurrently.  The adaptation is of a TD value into a zero TS value.
RegFields == {"Name", "Age"}
RegConverters == {"upper"}
RegValidators == {"accept"}
RegDst == {"TS"}
RegPairs == {<<"TD", "TS">>}

\* The apply functions given to Batch, as the helper calls they make.
BatchProgs ==
  { << Entry("conv", "global", "", "", "Name", "upper"),
       Entry("conv", "dst", "", "TS", "Name", "lower"),
       Entry("conv", "pair", "TD", "TS", "Name", "constX"),
       Entry("val", "global", "", "", "Age", "accept"),
       Entry("val", "dst", "", "TS", "Age", "nonZero"),
       Entry("val", "pair", "TD", "TS", "Name", "accept") >>,
    << Entry("conv", "dst", "", "TS", "Age", "toInt"),
       Entry("val", "global", "", "", "Email", "nonZero") >> }

ConcSources ==
  { SourceTD(1, 1, NullJSONFrom(ObjBytes([k \in {"Email"} |-> JStr(2)]))) }

Init == NewWithOptions(DefaultOptions)

Register(w) ==
  \/ \E f \in RegFields, fn \in RegConverters : RegisterConverter(w, f, fn)
  \/ \E t \in RegDst, f \in RegFields, fn \in RegConverters :
       RegisterConverterFor(w, t, f, fn)
  \/ \E p \in RegPairs, f \in RegFields, fn \in RegConverters :
       RegisterConverterForPair(w, p[1], p[2], f, fn)
  \/ \E f \in RegFields, fn \in RegValidators : RegisterValidator(w, f, fn)
  \/ \E t \in RegDst, f \in RegFields, fn \in RegValidators :
       RegisterValidatorFor(w, t, f, fn)
  \/ \E p \in RegPairs, f \in RegFields, fn \in RegValidators :
       RegisterValidatorForPair(w, p[1], p[2], f, fn)
  \/ RegisterStore(w)

Batch(w) ==
  \/ \E prog \in BatchProgs : BatchLoadConverters(w, prog)
  \/ BatchLoadValidators(w)
  \/ BatchStoreConverters(w)
  \/ BatchStoreValidators(w)

IntoSteps(r) ==
  \/ DirectField(r)
  \/ DirectValidate(r)
  \/ Unmarshal(r)
  \/ UnmarshalKey(r)
  \/ UnmarshalValidate(r)
  \/ Marshal(r)

Next ==
  \/ \E w \in Writers : Register(w) \/ Batch(w)
  \/ \E r \in Readers :
       \/ \E src \in ConcSources : IntoStart(r, "TS", "TD", ZeroStruct("TS"), src)
       \/ IntoSteps(r)

Spec == Init /\ [][Next]_vars

\* --- SpecInto: an Adapter built with some options, given a few
\* registrations, and then used for one Into call, with nothing running
\* concurrently.
BoolOptions ==
  { [DefaultOptions EXCEPT !.IncludeZeroValues = z,
                           !.CaseInsensitiveAdditionalData = ci,
                           !.OverwritePolicy = p] :
      z \in BOOLEAN, ci \in BOOLEAN, p \in {PreferFields, PreferAdditionalData} }
IntoOptions ==
  BoolOptions
  \cup { [DefaultOptions EXCEPT !.DisableMarshalAdditionalData = TRUE],
         [DefaultOptions EXCEPT !.DisableUnmarshalAdditionalData = TRUE,
                                !.OverwritePolicy = PreferAdditionalData] }

\* The JSON objects a source AdditionalData holds.
OneKey(k, raw) == ObjBytes([x \in {k} |-> raw])
TwoKeys(k1, raw1, k2, raw2) == ObjBytes([x \in {k1, k2} |-> IF x = k1 THEN raw1 ELSE raw2])
OverflowBytes ==
  { NilBytes, BadBytes,
    OneKey("Name", JStr(2)), OneKey("name", JStr(2)), OneKey("NAME", JStr(2)),
    OneKey("Age", JNum(2)), OneKey("Age", JStr(2)), OneKey("Email", JStr(2)),
    TwoKeys("Name", JStr(2), "name", JStr(3)),
    TwoKeys("Name", JStr(2), "Age", JNum(2)) }

SourceTG(name, note, email, ad) ==
  <<StringVal(name), StringVal(note), StringVal(email), ad>>

\* The values Into is given as *src, per type.
Sources(t) ==
  CASE t = "TS" -> { SourceTS(1, 1, e, NullJSONFrom(b)) :
                       e \in {0, 1}, b \in OverflowBytes }
                   \cup { SourceTS(0, 0, 0, NullJSONZero) }
    [] t = "TD" -> { SourceTD(n, 1, NullJSONFrom(b)) : n \in {0, 1}, b \in OverflowBytes }
    [] t = "TG" -> { SourceTG(1, 1, e, NullJSONFrom(b)) :
                       e \in {0, 1}, b \in {NilBytes, OneKey("Name", JStr(2))} }
    [] t = "TB" -> { <<StringVal(1), IntVal(1), BoilerJSON(b)>> :
                       b \in {NilBytes, OneKey("Name", JStr(2))} }

\* The values *dst holds when Into is called: the zero value, or a value
\* whose fields and AdditionalData are all set.
UsedStruct(t) ==
  [i \in 1..Len(StructDecl(t)) |->
     LET typ == StructDecl(t)[i].typ IN
     CASE typ = "null.JSON" -> NullJSONFrom(OneKey("Old", JStr(3)))
       [] typ = "types.JSON" -> BoilerJSON(OneKey("Old", JStr(3)))
       [] OTHER -> Scalar(typ, 3)]
Destinations(t) == {ZeroStruct(t), UsedStruct(t)}

\* The (destination type, source type) pairs of the Into calls.
IntoPairs ==
  { <<"TD", "TS">>, <<"TS", "TD">>, <<"TB", "TS">>, <<"TB", "TD">>,
    <<"TD", "TG">>, <<"TD", "TB">> }

InitInto == \E opts \in IntoOptions : NewWithOptions(opts)

Idle == /\ \A w \in Writers : writer[w].pc = "idle"
        /\ \A r \in Readers : call[r].pc = "idle"

NextInto ==
  \/ \E w \in Writers :
       \/ Idle /\ \E f \in {"Name", "Age"} : RegisterConverter(w, f, "upper")
       \/ Idle /\ RegisterConverter(w, "Age", "convErr")
       \/ Idle /\ RegisterValidator(w, "Name", "nonZero")
       \/ RegisterStore(w)
  \/ \E r \in Readers :
       \/ /\ Idle
          /\ \E p \in IntoPairs : \E d \in Destinations(p[1]), src \in Sources(p[2]) :
               IntoStart(r, p[1], p[2], d, src)
       \/ IntoSteps(r)

SpecInto == InitInto /\ [][NextInto]_vars

\* --- SpecRoundTrip: an Adapter with some options and a few converters, used
\* for Into(b, A) and then for Into(a2, b) with a2 a zero value of A's type.
\* The values A: their own AdditionalData is absent.
RoundTripSources(t) ==
  CASE t = "TS" -> { SourceTS(n, 1, e, NullJSONZero) : n \in {0, 1}, e \in {0, 1} }
    [] t = "TD" -> { SourceTD(n, 1, NullJSONZero) : n \in {0, 1} }
    [] t = "TB" -> { <<StringVal(1), IntVal(1), BoilerJSON(NilBytes)>> }

\* The (type of b, type of A) pairs.
RoundTripPairs ==
  { <<"TD", "TS">>, <<"TG", "TS">>, <<"TB", "TS">>, <<"TS", "TD">>,
    <<"TB", "TD">>, <<"TD", "TB">> }

NextRoundTrip ==
  \/ \E w \in Writers :
       \/ Idle /\ \E f \in {"Age", "Email"} : RegisterConverter(w, f, "ident")
       \/ Idle /\ RegisterConverter(w, "Name", "upper")
       \/ RegisterStore(w)
  \/ \E r \in Readers :
       \/ /\ Idle
          /\ \E p \in RoundTripPairs :
               \E d \in Destinations(p[1]), src \in RoundTripSources(p[2]) :
                 IntoStart(r, p[1], p[2], d, src)
       \/ IntoSteps(r)
       \/ IntoBack(r)

SpecRoundTrip == InitInto /\ [][NextRoundTrip]_vars

\* --- SpecScopes: an Adapter with the default options or with
\* PreferAdditionalData, given converters and validators at the three scopes
\* for the field Email (which a TD source carries only in its
\* AdditionalData) and a global validator for Name, and then used for
\* Into(TS <- TD), with nothing running concurrently.
ScopeOptions ==
  { DefaultOptions, [DefaultOptions EXCEPT !.OverwritePolicy = PreferAdditionalData] }

ScopeValidators == {"accept", "reject"}

ScopeOverflow ==
  { BadBytes, NullBytes,
    OneKey("Email", JStr(2)), OneKey("Email", JNum(2)),
    TwoKeys("Email", JStr(2), "Name", JStr(2)),
    TwoKeys("Email", JNum(2), "Name", JStr(0)) }

InitScopes == \E opts \in ScopeOptions : NewWithOptions(opts)

NextScopes ==
  \/ \E w \in Writers :
       \/ Idle /\ \E fn \in ScopeValidators : RegisterValidator(w, "Email", fn)
       \/ Idle /\ \E fn \in ScopeValidators : RegisterValidatorFor(w, "TS", "Email", fn)
       \/ Idle /\ \E fn \in ScopeValidators :
                    RegisterValidatorForPair(w, "TD", "TS", "Email", fn)
       \/ Idle /\ RegisterValidator(w, "Name", "nonZero")
       \/ Idle /\ \E fn \in {"upper", "convErr"} : RegisterConverter(w, "Email", fn)
       \/ Idle /\ RegisterConverterFor(w, "TS", "Email", "upper")
       \/ Idle /\ RegisterConverterForPair(w, "TD", "TS", "Email", "upper")
       \/ RegisterStore(w)
  \/ \E r \in Readers :
       \/ /\ Idle
          /\ \E d \in Destinations("TS"), b \in ScopeOverflow :
               IntoStart(r, "TS", "TD", d, SourceTD(1, 1, NullJSONFrom(b)))
       \/ IntoSteps(r)

SpecScopes == InitScopes /\ [][NextScopes]_vars

\* --- SpecMeta: two goroutines use a new Adapter concurrently, each for one
\* Into(D <- S) or one WarmMetadata call.  S has no AdditionalData, so the
\* loop over the keys of the unmarshal phase is never entered.
Callers == {"g1", "g2"}

WarmExamples ==
  { <<Example("nil", ""), Example("struct", "D")>>,
    <<Example("ptr", "S"), Example("other", ""), Example("struct", "D")>>,
    <<Example("other", "")>> }

InitMeta ==
  /\ heap = NewHeap
  /\ converters = 1
  /\ validators = 2
  /\ gen = 1
  /\ metadataCache = EmptyMap
  /\ options = DefaultOptions
  /\ writer = [w \in Writers |-> WriterIdle]
  /\ call = [g \in Callers |-> CallIdle]
  /\ started = 0
  /\ committed = <<>>
  /\ log = <<>>

NextMeta ==
  \E g \in Callers :
    \/ \E examples \in WarmExamples : WarmMetadata(g, examples)
    \/ \E v \in {0, 1} : IntoMeta(g, "D", "S", ZeroStruct("D"), <<IntVal(v)>>)
    \/ MetaLoad(g)
    \/ MetaBuild(g)
    \/ MetaLoadOrStore(g)
    \/ DirectField(g)
    \/ DirectValidate(g)
    \/ Unmarshal(g)
    \/ Marshal(g)

SpecMeta == InitMeta /\ [][NextMeta]_vars

\* --- SpecPool: two goroutines use a new Adapter concurrently for
\* Into(D <- SA) calls, MaxCalls calls in all; SA has only an AdditionalData,
\* which is absent, so no field is set and the only key a scratch map gets
\* is processed["AdditionalData"].
MaxCalls == 3

PoolSources == { <<NullJSONZero>> }

NextPool ==
  \E g \in Callers :
    \/ /\ call["g1"].n + call["g2"].n < MaxCalls
       /\ \E src \in PoolSources : IntoPool(g, "D", "SA", ZeroStruct("D"), src)
    \/ GetBoolMap(g)
    \/ DirectField(g)
    \/ Unmarshal(g)
    \/ Marshal(g)
    \/ PutBoolMap(g)

SpecPool == InitMeta /\ [][NextPool]_vars

\* --- SpecIgnore: an Adapter built with some options, given converters for
\* the field Note, and then used for one Into call between a type that tags
\* Note with adapter:"ignore" (TG) or adapter:"-" (TH) and a type that does
\* not (TN, TD), with nothing running concurrently.
IgnoreOptions ==
  { DefaultOptions,
    [DefaultOptions EXCEPT !.OverwritePolicy = PreferAdditionalData],
    [DefaultOptions EXCEPT !.CaseInsensitiveAdditionalData = TRUE],
    [DefaultOptions EXCEPT !.IncludeZeroValues = TRUE] }

IgnoreOverflow ==
  { NilBytes, OneKey("Note", JStr(2)), OneKey("NOTE", JStr(2)),
    TwoKeys("Note", JStr(2), "Name", JStr(2)) }

IgnoreSources(t) ==
  CASE t = "TG" -> { SourceTG(1, n, 1, NullJSONFrom(b)) :
                       n \in {0, 1}, b \in IgnoreOverflow }
    [] t \in {"TN", "TH"} ->
         { <<StringVal(1), StringVal(n), NullJSONFrom(b)>> :
             n \in {0, 1}, b \in IgnoreOverflow }

\* The (destination type, source type) pairs of the Into calls.
IgnorePairs ==
  { <<"TG", "TN">>, <<"TN", "TG">>, <<"TD", "TG">>, <<"TH", "TN">>,
    <<"TN", "TH">>, <<"TG", "TH">> }

InitIgnore == \E opts \in IgnoreOptions : NewWithOptions(opts)

NextIgnore ==
  \/ \E w \in Writers :
       \/ Idle /\ RegisterConverter(w, "Note", "upper")
       \/ Idle /\ \E t \in {"TG", "TN"} : RegisterConverterFor(w, t, "Note", "upper")
       \/ RegisterStore(w)
  \/ \E r \in Readers :
       \/ /\ Idle
          /\ \E p \in IgnorePairs :
               \E d \in Destinations(p[1]), src \in IgnoreSources(p[2]) :
                 IntoStart(r, p[1], p[2], d, src)
       \/ IntoSteps(r)

SpecIgnore == InitIgnore /\ [][NextIgnore]_vars

\* --- SpecMatch: an Adapter built with or without case-insensitive matching
\* and used for one Into(TK <- TL) call.  TK.Name differs from TL.NAME in
\* case only, TK.Age has the name of TL.Age and the json name of TL.Years,
\* TK.Span has the json name of TL.Len, and TK.Email has no counterpart.
MatchOptions ==
  { DefaultOptions, [DefaultOptions EXCEPT !.CaseInsensitiveAdditionalData = TRUE] }

MatchSources ==
  { <<StringVal(n), IntVal(a), IntVal(2), IntVal(l)>> :
      n \in {0, 1}, a \in {0, 1}, l \in {0, 1} }

InitMatch == \E opts \in MatchOptions : NewWithOptions(opts)

NextMatch ==
  \E r \in Readers :
    \/ \E d \in Destinations("TK"), src \in MatchSources :
         IntoStart(r, "TK", "TL", d, src)
    \/ DirectField(r)
    \/ DirectValidate(r)
    \/ Unmarshal(r)
    \/ Marshal(r)

SpecMatch == InitMatch /\ [][NextMatch]_vars

\* --- SpecNonJSON: an Adapter used for one Into call whose source type TX has
\* a field named AdditionalData of type string, into a destination with a
\* null.JSON AdditionalData.
NonJSONOptions == { DefaultOptions, [DefaultOptions EXCEPT !.IncludeZeroValues = TRUE] }

NonJSONSources == { <<StringVal(n), StringVal(x)>> : n \in {0, 1}, x \in {0, 1} }

InitNonJSON == \E opts \in NonJSONOptions : NewWithOptions(opts)

NextNonJSON ==
  \E r \in Readers :
    \/ \E dt \in {"TD", "TN"} : \E d \in Destinations(dt), src \in NonJSONSources :
         IntoStart(r, dt, "TX", d, src)
    \/ DirectField(r)
    \/ DirectValidate(r)
    \/ Unmarshal(r)
    \/ Marshal(r)

SpecNonJSON == InitNonJSON /\ [][NextNonJSON]_vars

\* --- SpecArgs: an Adapter used for MaxCalls Into calls, one after the other,
\* whose arguments are any interface values: the untyped nil, a struct passed
\* by value, a nil pointer, a pointer to a pointer, or a pointer to a struct.
\* An argument of Into: its kind, the struct type it is about and the struct
\* value it leads to (none for nil and for a nil pointer).
Arg(kind, t, val) == [kind |-> kind, typ |-> t, val |-> val]
PointerKinds == {"ptr", "nilptr", "ptrptr"}

\* The checks of Into before adaptStruct: the error it returns, or NoErr.
IntoCheckAcceptsNilPointer(dst, src) ==
  IF src.kind = "nil" \/ dst.kind = "nil" THEN "src and dst must not be nil"
  ELSE IF src.kind \notin PointerKinds \/ dst.kind \notin PointerKinds
       THEN "src and dst must be pointers"
  ELSE IF src.kind = "ptrptr" \/ dst.kind = "ptrptr"
       THEN "src and dst must point to structs"
  ELSE NoErr
IntoCheck(dst, src) ==
  IF src.kind = "nil" \/ dst.kind = "nil" THEN "src and dst must not be nil"
  ELSE IF src.kind \notin PointerKinds \/ dst.kind \notin PointerKinds
       THEN "src and dst must be pointers"
  ELSE IF src.kind # "ptr" \/ dst.kind # "ptr"
       THEN "src and dst must point to structs"
  ELSE NoErr

\* Into(dst, src) with any two arguments, up to its return with an error or
\* to the direct loop of adaptStruct.
IntoArgs(r, dst, src) ==
  /\ call[r].pc \in {"idle", "done"}
  /\ LET e == IntoCheck(dst, src)
         c == [CallIdle EXCEPT !.dt = dst.typ, !.st = src.typ, !.src = src.val,
                               !.dst = dst.val, !.dst0 = dst.val,
                               !.dk = dst.kind, !.sk = src.kind,
                               !.n = call[r].n + 1]
     IN IF e # NoErr
        THEN /\ call' = [call EXCEPT ![r] = Return(c, WrapErr("", "", e))]
             /\ UNCHANGED <<metadataCache, log>>
        ELSE /\ metadataCache' =
                  [t \in DOMAIN metadataCache \cup {dst.typ, src.typ} |->
                     IF t \in DOMAIN metadataCache THEN metadataCache[t]
                     ELSE getOrBuildMetadata(t)]
             /\ call' = [call EXCEPT ![r] =
                  [c EXCEPT !.pc = "direct", !.i = 1,
                            !.hasAD = metadataCache'[src.typ].additionalDataField # 0
                                      \/ metadataCache'[dst.typ].additionalDataField # 0]]
             /\ log' = Append(log, Event(r, "start", "direct", "", NilFn, "", 0,
                                         src.val, NoErr))
  /\ UNCHANGED <<heap, converters, validators, gen, options, writer, started,
                 committed>>

ArgsOf(t, val) ==
  { Arg("nil", "", <<>>), Arg("struct", t, val), Arg("nilptr", t, <<>>),
    Arg("ptrptr", t, val), Arg("ptr", t, val) }
DstArgs == ArgsOf("TS", ZeroStruct("TS")) \cup ArgsOf("TS", UsedStruct("TS"))
SrcArgs == ArgsOf("TD", SourceTD(1, 1, NullJSONFrom(OneKey("Email", JStr(2)))))

InitArgs == NewWithOptions(DefaultOptions)

NextArgs ==
  \E r \in Readers :
    \/ /\ call[r].n < MaxCalls
       /\ \E dst \in DstArgs, src \in SrcArgs : IntoArgs(r, dst, src)
    \/ IntoSteps(r)

SpecArgs == InitArgs /\ [][NextArgs]_vars

\* --- SpecConv: an Adapter given converters for Name and Age that return a
\* string, an int or nil, and a validator for Age, and then used for one
\* Into(TS <- TD) call, with nothing running concurrently.
ConvFns == {"upper", "toInt", "retNil"}

ConvSources ==
  { SourceTD(1, 1, NullJSONFrom(b)) : b \in {NilBytes, OneKey("Email", JStr(2))} }

InitConv == NewWithOptions(DefaultOptions)

NextConv ==
  \/ \E w \in Writers :
       \/ Idle /\ \E f \in {"Name", "Age"}, fn \in ConvFns : RegisterConverter(w, f, fn)
       \/ Idle /\ \E fn \in ConvFns : RegisterConverterFor(w, "TS", "Name", fn)
       \/ Idle /\ \E fn \in ConvFns : RegisterConverterForPair(w, "TD", "TS", "Name", fn)
       \/ Idle /\ RegisterValidator(w, "Age", "nonZero")
       \/ RegisterStore(w)
  \/ \E r \in Readers :
       \/ /\ Idle
          /\ \E d \in Destinations("TS"), src \in ConvSources :
               IntoStart(r, "TS", "TD", d, src)
       \/ IntoSteps(r)

SpecConv == InitConv /\ [][NextConv]_vars

\* --- SpecDisable: an Adapter built with the unmarshal phase or the marshal
\* phase disabled (or none, or both), given a converter and a validator for
\* Email, and then used for one Into(TS <- TD) or Into(TB <- TD) call whose
\* source AdditionalData is absent, malformed, or an object with the key
\* Email or with the name of the destination AdditionalData field as a key.
DisableOptions ==
  { [DefaultOptions EXCEPT !.DisableUnmarshalAdditionalData = u,
                           !.DisableMarshalAdditionalData = k] :
      u \in BOOLEAN, k \in BOOLEAN }

DisableOverflow ==
  { NilBytes, BadBytes, OneKey("Email", JStr(2)),
    OneKey("AdditionalData", JStr(2)), OneKey("Extra", JNum(2)) }

InitDisable == \E opts \in DisableOptions : NewWithOptions(opts)

NextDisable ==
  \/ \E w \in Writers :
       \/ Idle /\ RegisterConverter(w, "Email", "upper")
       \/ Idle /\ RegisterValidator(w, "Email", "reject")
       \/ RegisterStore(w)
  \/ \E r \in Readers :
       \/ /\ Idle
          /\ \E dt \in {"TS", "TB"} : \E d \in Destinations(dt), b \in DisableOverflow :
               IntoStart(r, dt, "TD", d, SourceTD(1, 1, NullJSONFrom(b)))
       \/ IntoSteps(r)

SpecDisable == InitDisable /\ [][NextDisable]_vars

\* --- SpecAlias: an Adapter built with some options and used for one
\* Into(TF <- TN) or Into(TS <- TD) call.  TF.FullName has the json name
\* "Name": no field of TN matches it, and the key Name of a source
\* AdditionalData does.
AliasOptions ==
  { DefaultOptions,
    [DefaultOptions EXCEPT !.OverwritePolicy = PreferAdditionalData],
    [DefaultOptions EXCEPT !.IncludeZeroValues = TRUE] }

AliasOverflow ==
  { NilBytes, OneKey("Name", JStr(2)), OneKey("Email", JStr(2)),
    TwoKeys("Name", JStr(2), "Email", JStr(2)) }

AliasSources(t) ==
  CASE t = "TN" -> { <<StringVal(n), StringVal(1), NullJSONFrom(b)>> :
                       n \in {0, 1}, b \in AliasOverflow }
    [] t = "TD" -> { SourceTD(n, 1, NullJSONFrom(b)) : n \in {0, 1}, b \in AliasOverflow }

InitAlias == \E opts \in AliasOptions : NewWithOptions(opts)

NextAlias ==
  \E r \in Readers :
    \/ \E p \in { <<"TF", "TN">>, <<"TS", "TD">> } :
         \E d \in Destinations(p[1]), src \in AliasSources(p[2]) :
           IntoStart(r, p[1], p[2], d, src)
    \/ IntoSteps(r)

SpecAlias == InitAlias /\ [][NextAlias]_vars

\* --- SpecWriters: two goroutines register converters and validators on one
\* Adapter concurrently, through the Register* functions and through Batch,
\* MaxRegs calls in all.
ConcWriters == {"w1", "w2"}

InitWriters ==
  /\ heap = NewHeap
  /\ converters = 1
  /\ validators = 2
  /\ gen = 1
  /\ metadataCache = EmptyMap
  /\ options = DefaultOptions
  /\ writer = [w \in ConcWriters |-> WriterIdle]
  /\ call = [r \in Readers |-> CallIdle]
  /\ started = 0
  /\ committed = <<>>
  /\ log = <<>>

NextWriters == \E w \in ConcWriters : Register(w) \/ Batch(w)

SpecWriters == InitWriters /\ [][NextWriters]_vars

\* --- SpecTypes: an Adapter with either overwrite policy used for one
\* Into(TQ <- TP) call.  Name has the same type on both sides, Count is an
\* int in TP and a float64 in TQ, and Age is a string in TP and an int in TQ,
\* which Go neither assigns nor converts.
TypesOptions ==
  { DefaultOptions, [DefaultOptions EXCEPT !.OverwritePolicy = PreferAdditionalData] }

TypesSources ==
  { <<StringVal(1), StringVal(a), IntVal(1), NullJSONFrom(b)>> :
      a \in {0, 1},
      b \in {NilBytes, OneKey("Age", JNum(2)), OneKey("Count", JNum(2)),
              OneKey("Name", JStr(2))} }

InitTypes == \E opts \in TypesOptions : NewWithOptions(opts)

NextTypes ==
  \E r \in Readers :
    \/ \E d \in Destinations("TQ"), src \in TypesSources :
         IntoStart(r, "TQ", "TP", d, src)
    \/ IntoSteps(r)

SpecTypes == InitTypes /\ [][NextTypes]_vars

\* --- SpecEmbedded: an Adapter with either overwrite policy used for one
\* Into(TE <- TE) call in which the embedded *Address of the source and that
\* of the destination are each nil or not.
EmbeddedSources ==
  { <<StringVal(1), s, NullJSONFrom(b)>> :
      s \in {NilEmbedded, StringVal(0), StringVal(1)},
      b \in {NilBytes, OneKey("Street", JStr(2))} }

EmbeddedDestinations ==
  { ZeroStruct("TE"), <<StringVal(0), StringVal(3), NullJSONZero>> }

InitEmbedded == \E opts \in TypesOptions : NewWithOptions(opts)

NextEmbedded ==
  \E r \in Readers :
    \/ \E d \in EmbeddedDestinations, src \in EmbeddedSources :
         IntoStart(r, "TE", "TE", d, src)
    \/ IntoSteps(r)

SpecEmbedded == InitEmbedded /\ [][NextEmbedded]_vars

\* --- SpecSelf: an Adapter with either overwrite policy used for one Into
\* call, of a TN value into a TN value that is another struct or the same.
SelfSources ==
  { <<StringVal(1), StringVal(n), NullJSONFrom(b)>> :
      n \in {0, 1},
      b \in {NilBytes, BadBytes, OneKey("Name", JStr(2)), OneKey("Email", JStr(2))} }

InitSelf == \E opts \in TypesOptions : NewWithOptions(opts)

NextSelf ==
  \E r \in Readers :
    \/ \E d \in Destinations("TN"), src \in SelfSources : IntoStart(r, "TN", "TN", d, src)
    \/ \E src \in SelfSources : IntoSelf(r, "TN", src)
    \/ IntoSteps(r)

SpecSelf == InitSelf /\ [][NextSelf]_vars

\* --- SpecReturn: an Adapter given a few registrations, some of them
\* functions that return an error, and then used for one Into(TS <- TD) call.
\* The goroutine that runs Into keeps running: adaptStruct takes no lock and
\* waits for nothing, so each of its steps is taken once it is enabled.
ReturnSources ==
  { SourceTD(1, 1, NullJSONFrom(b)) :
      b \in {NilBytes, BadBytes, OneKey("Email", JStr(2)),
              TwoKeys("Name", JStr(2), "Email", JStr(2))} }

InitReturn == \E opts \in TypesOptions : NewWithOptions(opts)

NextReturn ==
  \/ \E w \in Writers :
       \/ Idle /\ \E fn \in {"upper", "convErr"} : RegisterConverter(w, "Name", fn)
       \/ Idle /\ RegisterConverter(w, "Email", "convErr")
       \/ Idle /\ \E f \in {"Age", "Email"} : RegisterValidator(w, f, "reject")
       \/ RegisterStore(w)
  \/ \E r \in Readers :
       \/ Idle /\ \E src \in ReturnSources : IntoStart(r, "TS", "TD", ZeroStruct("TS"), src)
       \/ IntoSteps(r)

FairInto == WF_vars(\E r \in Readers : IntoSteps(r))

SpecReturn == InitReturn /\ [][NextReturn]_vars /\ FairInto

\* ------------------------------------------------------------------------
\* Properties
\* ------------------------------------------------------------------------
EmptyRegistry == [global |-> EmptyMap, byDst |-> EmptyMap, byPair |-> EmptyMap]

\* A registry value with one more entry registered.
WithEntry(v, e) ==
  LET inner(m) == Put(IF ScopeKey(e) \in DOMAIN m THEN m[ScopeKey(e)] ELSE EmptyMap,
                      e.field, e.fn)
  IN CASE e.scope = "global" -> [v EXCEPT !.global = Put(@, e.field, e.fn)]
       [] e.scope = "dst" -> [v EXCEPT !.byDst = Put(@, ScopeKey(e), inner(@))]
       [] e.scope = "pair" -> [v EXCEPT !.byPair = Put(@, ScopeKey(e), inner(@))]

\* The registry value that holds exactly the entries of one kind in a
\* sequence of registrations, later ones replacing earlier ones.
RECURSIVE WithEntries(_, _, _)
WithEntries(v, entries, kind) ==
  IF entries = <<>> THEN v
  ELSE WithEntries(IF Head(entries).kind = kind THEN WithEntry(v, Head(entries)) ELSE v,
                   Tail(entries), kind)

\* Whether a registry value has a function registered for a field at a scope.
HasAt(m, key, fieldName) ==
  key \in DOMAIN m /\ fieldName \in DOMAIN m[key] /\ m[key][fieldName] # NilFn
HasGlobal(v, fieldName) == fieldName \in DOMAIN v.global /\ v.global[fieldName] # NilFn

\* The function that scope precedence selects in a registry value for a field
\* of the pair (srcType, dstType): pair scope, else destination scope, else
\* global; NilFn when none is registered.
Preferred(v, srcType, dstType, fieldName) ==
  IF HasAt(v.byPair, <<srcType, dstType>>, fieldName)
  THEN v.byPair[<<srcType, dstType>>][fieldName]
  ELSE IF HasAt(v.byDst, <<dstType>>, fieldName) THEN v.byDst[<<dstType>>][fieldName]
  ELSE IF HasGlobal(v, fieldName) THEN v.global[fieldName]
  ELSE NilFn

\* The log entries of direct field resolution that record the outcome of
\* adaptField's converter lookup.
IsDirectResolution(e) == e.phase = "direct" /\ e.ev \in {"convert", "copy", "skip"}

\* C1: in direct field resolution of a destination field between source type
\* S and destination type D, the converter invoked is the one registered for
\* the field at pair scope (S, D) if there is one, otherwise the one at
\* destination scope D, otherwise the global one; a converter of a lower scope
\* is not invoked, and without any converter the field is copied directly.
C1_ConverterPrecedence ==
  \A i \in 1..Len(log) :
    IsDirectResolution(log[i]) =>
      LET e == log[i]
          v == RegistryValue(heap, e.reg)
          want == Preferred(v, call[e.r].st, call[e.r].dt, e.field)
      IN /\ e.fn = want
         /\ (e.ev = "convert") = (want # NilFn)

\* A call has invoked the pair-scoped converter of a field for which
\* converters are registered at all three scopes, with three different
\* functions.
C1_Witness ==
  \E i \in 1..Len(log) :
    LET e == log[i]
        v == RegistryValue(heap, e.reg)
        pk == <<call[e.r].st, call[e.r].dt>>
        dk == <<call[e.r].dt>>
    IN /\ IsDirectResolution(e)
       /\ e.ev = "convert"
       /\ HasAt(v.byPair, pk, e.field)
       /\ HasAt(v.byDst, dk, e.field)
       /\ HasGlobal(v, e.field)
       /\ e.fn = v.byPair[pk][e.field]
       /\ Cardinality({v.byPair[pk][e.field], v.byDst[dk][e.field],
                       v.global[e.field]}) = 3

\* The registries loaded by the Into calls so far.
Loaded == {log[i].reg : i \in {j \in 1..Len(log) : log[j].load # ""}}

\* C2: whatever the interleaving of a registration call with the readers, a
\* load of a registry returns the complete registry of before the call or the
\* complete registry of after it: the current converter (validator) registry
\* holds exactly the entries of the converter (validator) registrations whose
\* Store has happened, and never part of a registration still in progress.
C2_LoadSeesCompleteSnapshot ==
  /\ RegistryValue(heap, converters) = WithEntries(EmptyRegistry, committed, "conv")
  /\ RegistryValue(heap, validators) = WithEntries(EmptyRegistry, committed, "val")

\* An Into call has loaded a registry while a registration call that began
\* from a registry with entries was between its Load and its Store.
C2_Witness ==
  \E w \in Writers, i \in 1..Len(log) :
    /\ writer[w].pc = "store"
    /\ committed # <<>>
    /\ log[i].load # ""
    /\ log[i].reg \in {converters, validators}
    /\ Len(heap.regs) > log[i].reg
    /\ \E j \in 1..i : log[j].ev = "start" /\ log[j].r = log[i].r

\* C3 (as stated): Batch applies its registrations as one atomic update, so an
\* Into call that has resolved a converter from the batch's converter registry
\* does not afterwards load a validator registry without the batch's
\* validators.
C3_BatchIsOneAtomicUpdate ==
  \A w \in Writers :
    (/\ writer[w].pc = "batchStoreV"
     /\ OfKind(writer[w].prog, "conv") # <<>>
     /\ OfKind(writer[w].prog, "val") # <<>>)
    => ~ \E i, j \in 1..Len(log) :
           /\ i < j
           /\ log[i].r = log[j].r
           /\ log[i].load = "conv" /\ log[i].reg = writer[w].newC
           /\ log[j].load = "val" /\ log[j].reg # writer[w].newV

\* C4 (as stated): an Into call loads the registry once and resolves all its
\* fields from that snapshot: all the converter registries a call loads are
\* the same registry, and so are all the validator registries.
C4_OneSnapshotPerInto ==
  \A i, j \in 1..Len(log) :
    (/\ log[i].r = log[j].r
     /\ log[i].load # ""
     /\ log[i].load = log[j].load)
    => log[i].reg = log[j].reg

\* C5: no registration or Batch call changes a published snapshot: in every
\* step, each registry that is current before the step, or that an Into call
\* has loaded, has the same entries after the step.
C5_PublishedSnapshotsImmutable ==
  [][\A rid \in {converters, validators} \cup Loaded :
       RegistryValue(heap', rid) = RegistryValue(heap, rid)]_vars

\* A registration has replaced a registry that an Into call had loaded, and
\* that registry had entries at the destination scope.
C5_Witness ==
  \E rid \in Loaded :
    /\ rid \notin {converters, validators}
    /\ DOMAIN RegistryValue(heap, rid).byDst # {}
    /\ Len(committed) >= 2

\* --- The data an Into call works on, for the properties below.
\* The decoded object of the source AdditionalData of a call; empty when the
\* source has none or it does not decode to an object.
SourceOverflow(c) ==
  LET ad == metadataCache[c.st].additionalDataField
  IN IF ad = 0 THEN EmptyMap ELSE RawBytes(c.src[ad]).obj

\* The keys of the source AdditionalData that name destination field fi.
KeysFor(c, fi) ==
  {k \in DOMAIN SourceOverflow(c) :
     lookup(metadataCache[c.dt], k, options.CaseInsensitiveAdditionalData) = fi}

\* The log entries of the steps of direct field resolution that set a
\* destination field from a source member.
IsDirectSet(e) == e.phase = "direct" /\ e.ev \in {"convert", "copy"} /\ e.err = NoErr

\* The position of a destination field of a call.
FieldPos(c, fieldName) == metadataCache[c.dt].fieldsByName[fieldName]

\* C6: with the PreferFields policy, a destination field that direct field
\* resolution has set from a source member, and that a key of the source
\* AdditionalData names too, holds the value direct resolution gave it, from
\* then on and when Into has returned.
C6_PreferFieldsKeepsDirectValue ==
  options.OverwritePolicy = PreferFields =>
    \A i \in 1..Len(log) :
      LET e == log[i]
          c == call[e.r]
      IN (IsDirectSet(e) /\ KeysFor(c, FieldPos(c, e.field)) # {})
         => c.dst[FieldPos(c, e.field)] = e.val

\* An Into call under PreferFields has returned nil after it dropped a key of
\* the source AdditionalData whose value decodes into the field's type and
\* differs from the value the field holds.
C6_Witness ==
  \E i, j \in 1..Len(log) :
    LET e == log[i]
        c == call[e.r]
        fi == FieldPos(c, e.field)
    IN /\ options.OverwritePolicy = PreferFields
       /\ c.pc = "done" /\ c.err = NoError
       /\ IsDirectSet(e)
       /\ i < j /\ log[j].r = e.r /\ log[j].ev = "keep" /\ log[j].field = e.field
       /\ \E k \in KeysFor(c, fi) :
            LET dec == UnmarshalTyped(SourceOverflow(c)[k], metadataCache[c.dt].fields[fi].typ)
            IN dec.ok /\ dec.val # c.dst[fi]

\* The case of C7: an Into call under PreferAdditionalData, with the unmarshal
\* phase enabled, has returned nil; direct resolution set field fi, and k is
\* the one key of the source AdditionalData that names fi, with a value that
\* decodes into the type of fi.
OverflowWinsCase(c, e, k) ==
  LET fi == FieldPos(c, e.field)
  IN /\ options.OverwritePolicy = PreferAdditionalData
     /\ ~options.DisableUnmarshalAdditionalData
     /\ c.pc = "done" /\ c.err = NoError
     /\ IsDirectSet(e)
     /\ KeysFor(c, fi) = {k}
     /\ UnmarshalTyped(SourceOverflow(c)[k], metadataCache[c.dt].fields[fi].typ).ok

\* C7 (as stated): in that case the destination field holds the value of the
\* key, decoded into the field's type.
C7_OverflowValueWins ==
  \A i \in 1..Len(log) :
    LET e == log[i]
        c == call[e.r]
        fi == FieldPos(c, e.field)
    IN \A k \in DOMAIN SourceOverflow(c) :
         OverflowWinsCase(c, e, k)
         => c.dst[fi] = UnmarshalTyped(SourceOverflow(c)[k],
                                       metadataCache[c.dt].fields[fi].typ).val

\* C7 (amended): in that case, if no converter is registered for the field at
\* global scope, the destination field holds the value of the key decoded into
\* the field's type; if one is, the field holds what the converter returns for
\* the generically decoded value when that is assignable to the field, and
\* keeps its direct value otherwise.
C7_OverflowValueWinsUnlessConverter ==
  \A i \in 1..Len(log) :
    LET e == log[i]
        c == call[e.r]
        fi == FieldPos(c, e.field)
        typ == metadataCache[c.dt].fields[fi].typ
    IN \A k \in DOMAIN SourceOverflow(c) :
         OverflowWinsCase(c, e, k)
         => LET raw == SourceOverflow(c)[k]
                v == RegistryValue(heap, c.reg)
                out == CallConverter(v.global[e.field], UnmarshalAny(raw))
            IN IF ~HasGlobal(v, e.field)
               THEN c.dst[fi] = UnmarshalTyped(raw, typ).val
               ELSE IF out.err = NoErr /\ out.val # NilVal /\ AssignableTo(out.val.k, typ)
               THEN c.dst[fi] = out.val
               ELSE c.dst[fi] = e.val

\* An Into call under PreferAdditionalData has replaced the direct value of a
\* field, for which no converter is registered, by the different value of a
\* key of the source AdditionalData.
C7_Witness ==
  \E i \in 1..Len(log) :
    LET e == log[i]
        c == call[e.r]
        fi == FieldPos(c, e.field)
    IN \E k \in DOMAIN SourceOverflow(c) :
         /\ OverflowWinsCase(c, e, k)
         /\ ~HasGlobal(RegistryValue(heap, c.reg), e.field)
         /\ c.dst[fi] # e.val
         /\ c.dst[fi] = UnmarshalTyped(SourceOverflow(c)[k],
                                       metadataCache[c.dt].fields[fi].typ).val

\* The order of the phases of adaptStruct.
PhaseRank(phase) ==
  CASE phase = "direct" -> 1 [] phase = "unmarshal" -> 2 [] phase = "marshal" -> 3

\* The destination fields of a call that direct field resolution resolves:
\* settable, not AdditionalData, not ignored, and matched by a source field
\* that is neither AdditionalData nor ignored.
Resolvable(c) ==
  LET dstMeta == metadataCache[c.dt]
      srcMeta == metadataCache[c.st]
  IN {i \in 1..Len(dstMeta.fields) :
        LET df == dstMeta.fields[i]
            si == MatchSource(srcMeta, df)
        IN /\ df.canSet /\ ~df.isAdditionalData /\ ~df.ignore
           /\ si # 0
           /\ ~srcMeta.fields[si].isAdditionalData /\ ~srcMeta.fields[si].ignore}

\* C8: within one Into call the steps happen in the order of the phases:
\* no step of direct field resolution after a step of the unmarshal or the
\* marshal phase, and no step of the unmarshal phase after the marshal phase;
\* when the unmarshal or the marshal phase begins, direct resolution has
\* handled every resolvable destination field; and when the marshal phase
\* runs for a source that has an AdditionalData field, with unmarshal
\* enabled, the unmarshal phase has run before.
C8_PhaseOrder ==
  \A j \in 1..Len(log) :
    LET e == log[j]
        c == call[e.r]
        before == {i \in 1..j : log[i].r = e.r}
    IN /\ \A i \in before : PhaseRank(log[i].phase) <= PhaseRank(e.phase)
       /\ e.phase \in {"unmarshal", "marshal"} =>
            \A fi \in Resolvable(c) :
              \E i \in before : /\ IsDirectResolution(log[i])
                                /\ log[i].field = metadataCache[c.dt].fields[fi].name
       /\ (/\ e.phase = "marshal"
           /\ metadataCache[c.st].additionalDataField # 0
           /\ ~options.DisableUnmarshalAdditionalData) =>
            \E i \in before : log[i].phase = "unmarshal" /\ log[i].ev = "phase"

\* An Into call has returned nil after all three phases acted: direct
\* resolution set a field, the unmarshal phase set a field from a key, and
\* the marshal phase stored leftover source fields.
C8_Witness ==
  \E r \in Readers :
    LET c == call[r]
        ad == metadataCache[c.dt].additionalDataField
    IN /\ c.pc = "done" /\ c.err = NoError
       /\ \E i, j, k \in 1..Len(log) :
            /\ i < j /\ j < k
            /\ log[i].r = r /\ IsDirectSet(log[i])
            /\ log[j].r = r /\ log[j].phase = "unmarshal"
            /\ log[j].ev \in {"convert", "decode"} /\ log[j].err = NoErr
            /\ log[k].r = r /\ log[k].phase = "marshal"
       /\ ad # 0 /\ DOMAIN c.dst[ad].b.obj # {}

\* The names of the source fields that direct field resolution consumes: the
\* source fields matched by a settable, non-ignored, non-AdditionalData
\* destination field.
Consumed(c) ==
  LET dstMeta == metadataCache[c.dt]
      srcMeta == metadataCache[c.st]
  IN {srcMeta.fields[MatchSource(srcMeta, dstMeta.fields[i])].name :
        i \in {j \in 1..Len(dstMeta.fields) :
                 /\ dstMeta.fields[j].canSet
                 /\ ~dstMeta.fields[j].isAdditionalData
                 /\ ~dstMeta.fields[j].ignore
                 /\ MatchSource(srcMeta, dstMeta.fields[j]) # 0}}

\* The source fields that are neither ignored nor AdditionalData nor consumed.
Leftover(c) ==
  LET srcMeta == metadataCache[c.st]
  IN {i \in 1..Len(srcMeta.fields) :
        /\ ~srcMeta.fields[i].isAdditionalData
        /\ ~srcMeta.fields[i].ignore
        /\ srcMeta.fields[i].name \notin Consumed(c)}

\* An Into call has returned nil and the marshal phase was enabled for a
\* destination with an AdditionalData field.
MarshalDone(c) ==
  /\ c.pc = "done" /\ c.err = NoError
  /\ metadataCache[c.dt].additionalDataField # 0
  /\ ~options.DisableMarshalAdditionalData

\* C9: after a successful Into with marshal enabled, into a destination with
\* an AdditionalData field, the object the destination AdditionalData decodes
\* to has exactly the keys that are the names of the source fields that are
\* not consumed, not ignored, not AdditionalData and (unless IncludeZeroValues)
\* not zero, and each key holds the encoded value of its source field.
C9_OverflowHoldsLeftover ==
  \A r \in Readers :
    LET c == call[r]
        srcMeta == metadataCache[c.st]
        obj == c.dst[metadataCache[c.dt].additionalDataField].b.obj
        want == {i \in Leftover(c) : options.IncludeZeroValues \/ ~IsZero(c.src[i])}
    IN MarshalDone(c) =>
         /\ DOMAIN obj = {srcMeta.fields[i].name : i \in want}
         /\ \A i \in want : obj[srcMeta.fields[i].name] = MarshalValue(c.src[i])

\* An Into call of a source with Name, Age, Email into a destination with
\* Name, Age and AdditionalData has returned nil with both fields set and an
\* AdditionalData that decodes to Email only.
C9_Witness ==
  \E r \in Readers :
    LET c == call[r]
        obj == c.dst[metadataCache[c.dt].additionalDataField].b.obj
    IN /\ MarshalDone(c)
       /\ c.st = "TS" /\ c.dt = "TD"
       /\ c.dst[1] = c.src[1] /\ c.dst[2] = c.src[2]
       /\ DOMAIN obj = {"Email"} /\ obj["Email"] = JStr(1)

\* C10: after a successful Into with marshal enabled, into a destination with
\* an AdditionalData field, when every source field that is neither ignored
\* nor AdditionalData was consumed by direct resolution, the destination
\* AdditionalData is the absent value of its type (null.JSON{} with Valid
\* false, a nil types.JSON) and not an encoded object.
C10_FullCoverageLeavesAbsent ==
  \A r \in Readers :
    LET c == call[r]
        dstMeta == metadataCache[c.dt]
        ad == dstMeta.additionalDataField
    IN (MarshalDone(c) /\ Leftover(c) = {})
       => /\ c.dst[ad] = Zero(dstMeta.fields[ad].typ)
          /\ c.dst[ad].b.st = "nil"

\* An Into call with IncludeZeroValues, all of whose source fields were
\* consumed, has returned nil after the marshal phase ran, and left the
\* destination AdditionalData absent.
C10_Witness ==
  \E r \in Readers :
    LET c == call[r]
        ad == metadataCache[c.dt].additionalDataField
    IN /\ MarshalDone(c) /\ Leftover(c) = {}
       /\ options.IncludeZeroValues
       /\ \E i \in 1..Len(log) : log[i].r = r /\ log[i].phase = "marshal"
       /\ \E i \in 1..Len(log) : log[i].r = r /\ log[i].phase = "unmarshal"
                                 /\ log[i].ev = "decode" /\ log[i].err = NoErr
       /\ c.dst[ad].b.st = "nil"

\* C11: after a successful Into with marshal enabled, into a destination with
\* an AdditionalData field: without IncludeZeroValues no zero-valued source
\* field is a key of the destination AdditionalData, and a source whose
\* fields are all zero leaves it absent; with IncludeZeroValues every source
\* field that is not consumed, not ignored and not AdditionalData is a key of
\* it, with its encoded value, the zero-valued ones included.
C11_ZeroValues ==
  \A r \in Readers :
    LET c == call[r]
        srcMeta == metadataCache[c.st]
        ad == metadataCache[c.dt].additionalDataField
        obj == c.dst[ad].b.obj
        plain == {i \in 1..Len(srcMeta.fields) :
                    ~srcMeta.fields[i].isAdditionalData /\ ~srcMeta.fields[i].ignore}
    IN MarshalDone(c) =>
         IF options.IncludeZeroValues
         THEN \A i \in Leftover(c) :
                /\ srcMeta.fields[i].name \in DOMAIN obj
                /\ obj[srcMeta.fields[i].name] = MarshalValue(c.src[i])
         ELSE /\ \A i \in plain :
                   IsZero(c.src[i]) => srcMeta.fields[i].name \notin DOMAIN obj
              /\ (\A i \in plain : IsZero(c.src[i]))
                   => c.dst[ad] = Zero(metadataCache[c.dt].fields[ad].typ)

\* An Into call with IncludeZeroValues has returned nil and stored a
\* zero-valued, unconsumed source field in the destination AdditionalData.
C11_Witness ==
  \E r \in Readers :
    LET c == call[r]
        obj == c.dst[metadataCache[c.dt].additionalDataField].b.obj
    IN /\ MarshalDone(c)
       /\ options.IncludeZeroValues
       /\ \E i \in Leftover(c) :
            /\ IsZero(c.src[i])
            /\ metadataCache[c.st].fields[i].name \in DOMAIN obj

\* --- Round trips.  In the second call of a round trip the destination type
\* is the type of A and the source type is the type of b.
\* The positions in the log of the starts of the calls of r.
Starts(r) == {i \in 1..Len(log) : log[i].r = r /\ log[i].ev = "start"}

\* The value A of a round trip: the source of the first call of r.
FirstSource(r) == log[CHOOSE i \in Starts(r) : \A j \in Starts(r) : i <= j].val

\* The fields of A that are neither AdditionalData nor ignored.
PlainFields(meta) ==
  {i \in 1..Len(meta.fields) :
     ~meta.fields[i].isAdditionalData /\ ~meta.fields[i].ignore}

\* Field i of A is a field of b too: direct resolution matches it with the
\* same field of b, of the same type, in both directions.
DirectBothWays(metaA, metaB, i) ==
  LET j == MatchSource(metaB, metaA.fields[i])
  IN /\ j # 0
     /\ ~metaB.fields[j].isAdditionalData /\ ~metaB.fields[j].ignore
     /\ MatchSource(metaA, metaB.fields[j]) = i
     /\ metaB.fields[j].typ = metaA.fields[i].typ

\* Field i of A travels in the AdditionalData of b: no field of b consumes
\* it, b has an AdditionalData field, and the name of the field, as a key,
\* names the field again.
ViaOverflow(metaA, metaB, i) ==
  /\ \A j \in 1..Len(metaB.fields) : MatchSource(metaA, metaB.fields[j]) # i
  /\ MatchSource(metaB, metaA.fields[i]) = 0
  /\ metaB.additionalDataField # 0
  /\ lookup(metaA, metaA.fields[i].name, options.CaseInsensitiveAdditionalData) = i

\* The converters that return their argument: func(v any) (any, error) {
\* return v, nil }.
LosslessConverters == {"ident"}

\* The case of C12: the second call of a round trip has returned nil, with
\* both overflow phases enabled; the AdditionalData of A is absent and its
\* ignored fields are zero; every other field of A is a field of b or travels
\* in the AdditionalData of b; and every registered converter is lossless.
RoundTripCase(r) ==
  LET c == call[r]
      A == FirstSource(r)
      metaA == metadataCache[c.dt]
      metaB == metadataCache[c.st]
  IN /\ Cardinality(Starts(r)) = 2
     /\ c.pc = "done" /\ c.err = NoError
     /\ ~options.DisableMarshalAdditionalData
     /\ ~options.DisableUnmarshalAdditionalData
     /\ \A i \in 1..Len(metaA.fields) : i \notin PlainFields(metaA) => IsZero(A[i])
     /\ \A i \in PlainFields(metaA) :
          DirectBothWays(metaA, metaB, i) \/ ViaOverflow(metaA, metaB, i)
     /\ \A i \in 1..Len(committed) :
          committed[i].kind = "conv" => committed[i].fn \in LosslessConverters

IsDirectFailure(e) ==
  e.phase = "direct" /\ e.ev \in {"convert", "validate"} /\ e.err # NoErr

\* C13: when a converter or a validator fails in direct field resolution of
\* field f, Into returns at once an error that wraps the failure and names f:
\* the failing step is the last step of the call (no field after f is
\* resolved, no unmarshal, no marshal), every destination field after f holds
\* what it held before the call, every field that direct resolution set
\* before f holds the value it was given, and f itself holds its old value
\* when its converter failed and its new value when its validator failed.
C13_DirectErrorAborts ==
  \A i \in 1..Len(log) :
    IsDirectFailure(log[i]) =>
      LET e == log[i]
          c == call[e.r]
          pos == FieldPos(c, e.field)
      IN /\ c.pc = "done"
         /\ c.err = WrapErr("adapting field", e.field, e.err)
         /\ \A j \in (i + 1)..Len(log) : log[j].r # e.r
         /\ \A k \in (pos + 1)..Len(c.dst) : c.dst[k] = c.dst0[k]
         /\ \A j \in 1..(i - 1) :
              (log[j].r = e.r /\ IsDirectSet(log[j]))
              => c.dst[FieldPos(c, log[j].field)] = log[j].val
         /\ e.ev = "convert" => c.dst[pos] = c.dst0[pos]

\* An Into call has returned the error of the converter of its second field:
\* the first field holds the source's value, which differs from its old one,
\* and the fields after the second, the AdditionalData among them, hold
\* their old non-zero values.
C13_Witness ==
  \E i \in 1..Len(log) :
    LET e == log[i]
        c == call[e.r]
        pos == FieldPos(c, e.field)
    IN /\ IsDirectFailure(e) /\ e.ev = "convert"
       /\ c.pc = "done"
       /\ pos = 2
       /\ c.dst[1] = c.src[1] /\ c.dst[1] # c.dst0[1]
       /\ \A k \in 2..Len(c.dst) : c.dst[k] = c.dst0[k] /\ ~IsZero(c.dst[k])
       /\ metadataCache[c.st].additionalDataField # 0
       /\ DOMAIN SourceOverflow(c) # {}

\* The log entries of the validator step that follows every assignment of
\* a destination field, in direct resolution and in the unmarshal phase.
IsValidation(e) == e.ev = "validate"

\* C14: for every destination field an Into call between source type S and
\* destination type D has assigned (by direct copy, by a converter or from
\* the source AdditionalData), the one validator run is the one registered
\* for the field at pair scope (S, D) if there is one, otherwise the one at
\* destination scope D, otherwise the global one, and the step fails only
\* when that validator rejects the value.
C14_ValidatorPrecedence ==
  \A i \in 1..Len(log) :
    IsValidation(log[i]) =>
      LET e == log[i]
          v == RegistryValue(heap, e.reg)
          want == Preferred(v, call[e.r].st, call[e.r].dt, e.field)
      IN /\ e.fn = want
         /\ e.err = (IF want = NilFn THEN NoErr ELSE CallValidator(want, e.val))

\* The log entries of the unmarshal phase that record how a key of the
\* source AdditionalData was applied to its destination field: through a
\* converter ("convert") or by decoding the raw value ("decode").
IsOverflowApply(e) == e.phase = "unmarshal" /\ e.ev \in {"convert", "decode"}

\* C15: when a key of the source AdditionalData is applied to destination
\* field f in an Into call between source type S and destination type D, the
\* converter invoked on the decoded value is the one registered for f at
\* pair scope (S, D) if there is one, otherwise the one at destination scope
\* D, otherwise the global one, and the raw value is decoded directly only
\* when no converter is registered for f at any of the three scopes.
C15_OverflowConverterPrecedence ==
  \A i \in 1..Len(log) :
    IsOverflowApply(log[i]) =>
      LET e == log[i]
          v == RegistryValue(heap, e.reg)
          want == Preferred(v, call[e.r].st, call[e.r].dt, e.field)
      IN /\ e.fn = want
         /\ (e.ev = "convert") = (want # NilFn)

\* The log entries of the steps that set a destination field: in direct
\* resolution, or from a key of the source AdditionalData.
IsSet(e) == IsDirectSet(e) \/ (IsOverflowApply(e) /\ e.err = NoErr)

\* The value destination field fieldName of call c held before step i: the
\* value of the last step before i that set it, or the value it held when
\* Into was called.
ValueBefore(c, i, fieldName) ==
  LET sets == {j \in 1..(i - 1) : IsSet(log[j]) /\ log[j].field = fieldName}
  IN IF sets = {} THEN c.dst0[FieldPos(c, fieldName)]
     ELSE log[CHOOSE j \in sets : \A j2 \in sets : j2 <= j].val

\* The case of C16: step e of the unmarshal phase invoked the converter
\* registered for a destination field on the value of k, the one key of the
\* source AdditionalData that names the field, and the converter returned an
\* error or a value whose type is not assignable to the field.
OverflowConverterFails(c, e, k) ==
  LET fi == FieldPos(c, e.field)
      out == CallConverter(e.fn, UnmarshalAny(SourceOverflow(c)[k]))
  IN /\ e.phase = "unmarshal" /\ e.ev = "convert"
     /\ KeysFor(c, fi) = {k}
     /\ \/ out.err # NoErr
        \/ out.val # NilVal /\ ~AssignableTo(out.val.k, metadataCache[c.dt].fields[fi].typ)

\* The keys of the source AdditionalData of a call that the unmarshal phase
\* applies by decoding them directly under PreferAdditionalData: the one key
\* of a settable destination field that is not ignored and has no global
\* converter, with a value that decodes into the field's type.
PlainKeys(c) ==
  {k \in DOMAIN SourceOverflow(c) :
     LET fi == lookup(metadataCache[c.dt], k, options.CaseInsensitiveAdditionalData)
         f == metadataCache[c.dt].fields[fi]
     IN /\ fi # 0
        /\ f.canSet /\ ~f.ignore
        /\ KeysFor(c, fi) = {k}
        /\ ~HasGlobal(RegistryValue(heap, c.reg), f.name)
        /\ UnmarshalTyped(SourceOverflow(c)[k], f.typ).ok}

\* C16: when, in the unmarshal phase, the converter registered for the field
\* a key names returns an error or a value that is not assignable to the
\* field, only that key is skipped: the field keeps the value it held before
\* the step, no later step decodes the key directly or validates the field,
\* the step does not end the call, an error the call returns comes from a
\* later step, and a call that returns nil under PreferAdditionalData has
\* applied every other key that decodes directly.
C16_FailedOverflowConverterSkipsKey ==
  \A i \in 1..Len(log) :
    LET e == log[i]
        c == call[e.r]
        fi == FieldPos(c, e.field)
    IN \A k \in DOMAIN SourceOverflow(c) :
         OverflowConverterFails(c, e, k) =>
           /\ c.dst[fi] = ValueBefore(c, i, e.field)
           /\ \A j \in (i + 1)..Len(log) :
                log[j].field = e.field => ~(IsOverflowApply(log[j]) \/ IsValidation(log[j]))
           /\ k \notin c.keys
           /\ i = Len(log) => c.pc \in {"unmarshalKey", "marshal"} /\ c.err = NoError
           /\ c.err # NoError =>
                \E j \in (i + 1)..Len(log) : log[j].err \notin {NoErr, "skipped"}
           /\ (c.pc = "done" /\ c.err = NoError
               /\ options.OverwritePolicy = PreferAdditionalData) =>
                \A k2 \in PlainKeys(c) \ {k} :
                  LET f2 == lookup(metadataCache[c.dt], k2,
                                   options.CaseInsensitiveAdditionalData)
                  IN c.dst[f2] = UnmarshalTyped(SourceOverflow(c)[k2],
                                                metadataCache[c.dt].fields[f2].typ).val

\* An Into call has returned nil after the converter of a field returned an
\* error for the field's key: the field holds the non-zero value it held
\* before the call, and a key applied after the failure has given another
\* field a new value.
C16_Witness ==
  \E i \in 1..Len(log) :
    LET e == log[i]
        c == call[e.r]
        fi == FieldPos(c, e.field)
    IN \E k \in DOMAIN SourceOverflow(c) :
         /\ OverflowConverterFails(c, e, k)
         /\ CallConverter(e.fn, UnmarshalAny(SourceOverflow(c)[k])).err # NoErr
         /\ c.pc = "done" /\ c.err = NoError
         /\ ~IsZero(c.dst[fi]) /\ c.dst[fi] = c.dst0[fi]
         /\ \E j \in (i + 1)..Len(log) :
              /\ IsOverflowApply(log[j]) /\ log[j].err = NoErr
              /\ log[j].field # e.field
              /\ c.dst[FieldPos(c, log[j].field)] = log[j].val
              /\ log[j].val # ValueBefore(c, j, log[j].field)

\* The log entries of the unmarshal phase in which a key was dropped because
\* its converter failed or its value did not decode into the field's type.
IsKeyFailure(e) == IsOverflowApply(e) /\ e.err = "skipped"

\* Into has returned the error of its unmarshal phase.
FailsInUnmarshal(c) == c.pc = "done" /\ c.err.op = "unmarshaling AdditionalData"

\* The source AdditionalData of a call does not decode to a JSON object.
InvalidContainer(c) ==
  LET ad == metadataCache[c.st].additionalDataField
  IN ad # 0 /\ RawBytes(c.src[ad]).st = "bad"

\* The second half of C17 for the call of goroutine r: a key failure does not
\* end the call; a call that returns nil after one has run the marshal phase
\* last and, under PreferAdditionalData, has applied every key that decodes
\* directly.
KeyFailuresDropped(r) ==
  LET c == call[r] IN
  \A i \in 1..Len(log) :
    (IsKeyFailure(log[i]) /\ log[i].r = r) =>
      /\ i = Len(log) => c.pc \in {"unmarshalKey", "marshal"} /\ c.err = NoError
      /\ MarshalDone(c) => log[Len(log)].ev = "phase" /\ log[Len(log)].phase = "marshal"
      /\ (c.pc = "done" /\ c.err = NoError
          /\ options.OverwritePolicy = PreferAdditionalData) =>
           \A k \in PlainKeys(c) :
             LET fi == lookup(metadataCache[c.dt], k, options.CaseInsensitiveAdditionalData)
             IN c.dst[fi] = UnmarshalTyped(SourceOverflow(c)[k],
                                          metadataCache[c.dt].fields[fi].typ).val

\* C17 (as stated): Into returns the error of its unmarshal phase only when
\* the source AdditionalData is not a well-formed JSON object; a key whose
\* conversion or decoding fails is dropped and the call goes on with the
\* remaining keys and the marshal phase.
C17_OnlyInvalidContainerFails ==
  \A r \in Readers :
    /\ FailsInUnmarshal(call[r]) => InvalidContainer(call[r])
    /\ KeyFailuresDropped(r)

\* C17 (amended): Into returns the error of its unmarshal phase only when the
\* source AdditionalData is not a well-formed JSON object, or when the
\* validator run after a key was assigned to its destination field rejected
\* the value, and then as the last step of the call; a key whose conversion
\* or decoding fails is dropped and the call goes on with the remaining keys
\* and the marshal phase.
C17_ContainerOrValidatorFails ==
  \A r \in Readers :
    LET c == call[r]
        last == log[Len(log)]
    IN /\ FailsInUnmarshal(c) =>
            \/ InvalidContainer(c) /\ c.err.cause = "invalid JSON"
            \/ /\ ~InvalidContainer(c)
               /\ IsValidation(last) /\ last.phase = "unmarshal" /\ last.r = r
               /\ last.fn # NilFn
               /\ last.err = CallValidator(last.fn, last.val)
               /\ c.err.cause = last.err
       /\ KeyFailuresDropped(r)

\* An Into call has dropped a key whose value does not decode into its
\* field's type, has gone on to assign another key, and has returned the
\* error of the validator of that key's field.
C17_Witness ==
  \E i, j \in 1..Len(log) :
    LET c == call[log[i].r] IN
    /\ i < j /\ log[j].r = log[i].r
    /\ IsKeyFailure(log[i]) /\ log[i].ev = "decode"
    /\ IsValidation(log[j]) /\ log[j].phase = "unmarshal" /\ log[j].err # NoErr
    /\ FailsInUnmarshal(c)
    /\ ~InvalidContainer(c)

\* The log entries of the unmarshal phase in which the value of a key was
\* assigned to its destination field.
IsOverflowSet(e) == IsOverflowApply(e) /\ e.err = NoErr

\* The validator a registry value holds for a field of destination type D at
\* destination scope, else at global scope; NilFn when neither is registered.
DstOrGlobal(v, dstType, fieldName) ==
  IF HasAt(v.byDst, <<dstType>>, fieldName) THEN v.byDst[<<dstType>>][fieldName]
  ELSE IF HasGlobal(v, fieldName) THEN v.global[fieldName]
  ELSE NilFn

SourceBytes(c) ==
  LET ad == metadataCache[c.st].additionalDataField
  IN IF ad = 0 \/ (c.src[ad].k = "null.JSON" /\ c.src[ad].v = 0) THEN "none"
     ELSE c.src[ad].b.st

\* What C19 says of a call that has returned with a source AdditionalData
\* that is not decoded: Into returns an error, which is the error of the
\* unmarshal phase unless direct resolution failed; the marshal phase has
\* not run and the destination AdditionalData holds what it held before
\* the call; every field that direct resolution set holds the value it was
\* given.
AbortedInUnmarshal(c) ==
  LET ad == metadataCache[c.dt].additionalDataField IN
  /\ c.err # NoError
  /\ c.err.op # "adapting field"
       => c.err = WrapErr("unmarshaling AdditionalData", "", "invalid JSON")
  /\ \A i \in 1..Len(log) : log[i].phase # "marshal"
  /\ ad # 0 => c.dst[ad] = c.dst0[ad]
  /\ \A i \in 1..Len(log) :
       IsDirectSet(log[i]) => c.dst[FieldPos(c, log[i].field)] = log[i].val

\* C19 (as stated): with the unmarshal phase enabled, an Into call whose
\* source AdditionalData holds bytes that are not a well-formed JSON object
\* returns an error without performing the marshal phase, the destination
\* AdditionalData is not written, and the fields set by direct resolution
\* keep their new values.
C19_NotAnObjectAborts ==
  \A r \in Readers :
    LET c == call[r] IN
    (/\ c.pc = "done"
     /\ ~options.DisableUnmarshalAdditionalData
     /\ SourceBytes(c) \in {"bad", "null"})
    => AbortedInUnmarshal(c)

\* C19 (amended): the same for bytes that json.Unmarshal rejects; bytes that
\* hold the JSON literal null are accepted as an AdditionalData without keys,
\* and the call goes on to the marshal phase and returns nil.
C19_UndecodableContainerAborts ==
  \A r \in Readers :
    LET c == call[r] IN
    (c.pc = "done" /\ ~options.DisableUnmarshalAdditionalData) =>
      /\ SourceBytes(c) = "bad" => AbortedInUnmarshal(c)
      /\ (SourceBytes(c) = "null" /\ c.err.op # "adapting field") =>
           /\ c.err = NoError
           /\ MarshalDone(c) => log[Len(log)].phase = "marshal"

\* An Into call has returned the error of the unmarshal phase for a source
\* AdditionalData that cannot be decoded: direct resolution has given the
\* first field a new value, and the destination AdditionalData holds the
\* non-empty value it held before the call.
C19_Witness ==
  \E r \in Readers :
    LET c == call[r]
        ad == metadataCache[c.dt].additionalDataField
    IN /\ c.pc = "done"
       /\ SourceBytes(c) = "bad"
       /\ c.err.op = "unmarshaling AdditionalData"
       /\ c.dst[1] = c.src[1] /\ c.dst[1] # c.dst0[1]
       /\ ad # 0 /\ c.dst[ad] = c.dst0[ad] /\ c.dst[ad].b.st = "obj"

\* The log entries of the returns of getOrBuildMetadata: field is the type,
\* val the instance returned.
IsMetaReturn(e) == e.ev = "meta"

\* C20: whatever the interleaving of the getOrBuildMetadata calls of
\* concurrent Into and WarmMetadata calls, every call for a type returns the
\* instance the cache holds for the type, so all calls for the type return
\* the same instance; at most one call stores an entry for a type; and an
\* entry of the cache is never removed, replaced or changed.
C20_OneMetadataInstancePerType ==
  /\ [](\A i \in 1..Len(log) :
         IsMetaReturn(log[i]) =>
           /\ log[i].field \in DOMAIN metadataCache
           /\ log[i].val = metadataCache[log[i].field]
           /\ \A j \in 1..Len(log) :
                (IsMetaReturn(log[j]) /\ log[j].field = log[i].field)
                => /\ log[j].val = log[i].val
                   /\ (log[i].load = "stored" /\ log[j].load = "stored") => i = j)
  /\ [][\A t \in DOMAIN metadataCache :
          t \in DOMAIN metadataCache' /\ metadataCache'[t] = metadataCache[t]]_vars

\* Two goroutines have each built an instance for the same type, and both
\* getOrBuildMetadata calls have returned: one stored its instance, the other
\* got the stored instance in place of its own.
C20_Witness ==
  \E i, j, k, l \in 1..Len(log) :
    /\ log[i].ev = "build" /\ log[j].ev = "build"
    /\ log[i].field = log[j].field /\ log[i].r # log[j].r
    /\ log[i].val # log[j].val
    /\ IsMetaReturn(log[k]) /\ log[k].r = log[i].r /\ log[k].load = "stored"
    /\ IsMetaReturn(log[l]) /\ log[l].r = log[j].r /\ log[l].load = "lost"
    /\ log[k].field = log[i].field /\ log[l].field = log[i].field
    /\ log[k].val = log[i].val /\ log[l].val = log[i].val

\* The scratch maps a call has got from getBoolMap and not yet given to
\* putBoolMap.
HeldMaps(c) == {c.pm, c.dm} \ {0}

\* C21: whatever the interleaving of concurrent Into calls, every map
\* getBoolMap hands out is empty at that moment, whether it is new or comes
\* from the pool; the processed and dstSet maps of a call are two different
\* objects; and an object that a call has got and not yet put back is
\* neither in the pool nor held by another call.
C21_ScratchMapsClearedAndUnshared ==
  \A g \in Callers :
    LET c == call[g] IN
    /\ \A i \in 1..Len(c.got) : c.got[i].keys = {}
    /\ (c.pm # 0 /\ c.dm # 0) => c.pm # c.dm
    /\ HeldMaps(c) \cap heap.pool = {}
    /\ \A g2 \in Callers \ {g} : HeldMaps(c) \cap HeldMaps(call[g2]) = {}

\* Two Into calls are in flight, each with its two scratch maps, and one of
\* them has got from the pool a map that an earlier call had put back with
\* keys in it.
C21_Witness ==
  \E g \in Callers : \E g2 \in Callers \ {g} :
    /\ Cardinality(HeldMaps(call[g])) = 2
    /\ Cardinality(HeldMaps(call[g2])) = 2
    /\ \E i \in 1..Len(call[g].got) :
         /\ call[g].got[i].pooled
         /\ call[g].got[i].before # {}
         /\ call[g].got[i].id \in HeldMaps(call[g])

\* Field i of struct type t is declared with the tag adapter:"ignore" or
\* adapter:"-".
TaggedIgnore(t, i) == StructDecl(t)[i].tag \in {"ignore", "-"}
IgnoredNames(t) ==
  {StructDecl(t)[i].name : i \in {j \in 1..Len(StructDecl(t)) : TaggedIgnore(t, j)}}

\* C22: at every moment of an Into call, no direct-resolution step has set a
\* destination field that is tagged ignore or whose matching source field is
\* tagged ignore; a destination field tagged ignore holds the value it had
\* when the call began, so no key of the source AdditionalData has populated
\* it; and the destination AdditionalData has no key named after a source
\* field tagged ignore.
C22_IgnoredFieldsUntouched ==
  \A r \in Readers :
    LET c == call[r] IN
    c.pc # "idle" =>
      LET dstMeta == metadataCache[c.dt]
          srcMeta == metadataCache[c.st]
      IN \A i \in 1..Len(dstMeta.fields) :
           LET df == dstMeta.fields[i]
               si == MatchSource(srcMeta, df)
           IN /\ (TaggedIgnore(c.dt, i) \/ (si # 0 /\ TaggedIgnore(c.st, si))) =>
                   \A n \in 1..Len(log) :
                     ~(IsDirectSet(log[n]) /\ log[n].field = df.name)
              /\ TaggedIgnore(c.dt, i) =>
                   /\ c.dst[i] = c.dst0[i]
                   /\ \A n \in 1..Len(log) :
                        ~(IsOverflowApply(log[n]) /\ log[n].field = df.name)
              /\ df.isAdditionalData =>
                   IgnoredNames(c.st) \cap DOMAIN c.dst[i].b.obj = {}

\* An Into call has returned nil where the source and the destination both
\* tag Note, the source Note is not zero, a global converter is registered
\* for Note, and the source AdditionalData has the keys Note and Name: the
\* key Name was applied, the marshal phase has replaced the destination
\* AdditionalData, and the destination Note is the one of before the call.
C22_Witness ==
  \E r \in Readers :
    LET c == call[r] IN
    /\ c.pc = "done" /\ c.err = NoError
    /\ c.dt = "TG" /\ c.st = "TH"
    /\ ~IsZero(c.src[2]) /\ ~IsZero(c.dst0[2])
    /\ c.src[3].b = TwoKeys("Note", JStr(2), "Name", JStr(2))
    /\ LookupField(heap, heap.regs[converters].global, "Note") # NilFn
    /\ \E n \in 1..Len(log) : IsOverflowSet(log[n]) /\ log[n].field = "Name"
    /\ c.dst[4] # c.dst0[4]
    /\ c.dst[2] = c.dst0[2]

\* The source field the stated rule locates for destination field df: exact
\* name, else json name, else (case-insensitive matching enabled) name or
\* json name compared without case; 0 when there is none.
LocatedBy(srcMeta, df, insensitive) ==
  LET lk == ToLower(df.name)
      lj == ToLower(df.jsonName)
  IN IF df.name \in DOMAIN srcMeta.fieldsByName THEN srcMeta.fieldsByName[df.name]
     ELSE IF df.jsonName # "" /\ df.jsonName \in DOMAIN srcMeta.fieldsByJSONName
          THEN srcMeta.fieldsByJSONName[df.jsonName]
     ELSE IF insensitive /\ lk \in DOMAIN srcMeta.fieldsByLowerName
          THEN srcMeta.fieldsByLowerName[lk]
     ELSE IF insensitive /\ df.jsonName # "" /\ lj \in DOMAIN srcMeta.fieldsByLowerJSONName
          THEN srcMeta.fieldsByLowerJSONName[lj]
     ELSE 0

\* C23: when an Into(TK <- TL) call without converters, validators or
\* AdditionalData has returned nil, every destination field holds the value
\* of the source field located by exact name, else by json name, else (when
\* case-insensitive matching is enabled) by name or json name without case,
\* and a destination field for which none is located holds the value it had
\* before the call.
C23_SourceMemberLocated ==
  \A r \in Readers :
    LET c == call[r] IN
    (c.pc = "done" /\ c.err = NoError /\ c.dt = "TK" /\ c.st = "TL") =>
      LET dstMeta == metadataCache[c.dt]
          srcMeta == metadataCache[c.st]
      IN \A i \in 1..Len(dstMeta.fields) :
           LET si == LocatedBy(srcMeta, dstMeta.fields[i],
                               options.CaseInsensitiveAdditionalData)
           IN c.dst[i] = IF si = 0 THEN c.dst0[i] ELSE c.src[si]

\* C24: in an Into call whose source type TX has a field named
\* AdditionalData of type string, that field is not the overflow slot of the
\* source, no key is ever unmarshalled from it, the destination
\* AdditionalData never has an entry for it, and the call returns nil with
\* the destination Name equal to the source Name.
C24_NonJSONAdditionalDataIgnored ==
  \A r \in Readers :
    LET c == call[r] IN
    (c.pc # "idle" /\ c.st = "TX") =>
      LET dstMeta == metadataCache[c.dt] IN
      /\ metadataCache[c.st].additionalDataField = 0
      /\ \A n \in 1..Len(log) : ~IsOverflowApply(log[n])
      /\ \A i \in 1..Len(dstMeta.fields) :
           dstMeta.fields[i].isAdditionalData =>
             "AdditionalData" \notin DOMAIN c.dst[i].b.obj
      /\ c.pc = "done" => (c.err = NoError /\ c.dst[1] = c.src[1])

\* The arguments of the call are not two pointers to structs.
BadArgs(c) == c.n > 0 /\ (c.dk # "ptr" \/ c.sk # "ptr")

\* C25: an Into call whose dst or src is nil, is not a pointer, or does not
\* point to a struct returns at once with an error: the step that takes the
\* arguments ends the call with an error and leaves the registries, the
\* metadata cache, the options and the destination value as they were, and
\* the destination is never modified afterwards.
C25_BadArgumentsRejected ==
  /\ [](\A r \in Readers :
          BadArgs(call[r]) =>
            /\ call[r].pc = "done"
            /\ call[r].err # NoError
            /\ call[r].dst = call[r].dst0)
  /\ [][\A r \in Readers :
          (call'[r].n = call[r].n + 1 /\ BadArgs(call'[r])) =>
            /\ call'[r].pc = "done"
            /\ call'[r].err # NoError
            /\ UNCHANGED <<heap, converters, validators, gen, metadataCache,
                           options, writer, started, committed, log>>]_vars

\* After an Into call that filled the metadata cache, a second call was given
\* a pointer to a destination with values in it and a nil *TD as its source,
\* and has returned the error about pointers to structs.
C25_Witness ==
  \E r \in Readers :
    LET c == call[r] IN
    /\ c.pc = "done" /\ c.n >= 2
    /\ c.dk = "ptr" /\ c.sk = "nilptr"
    /\ c.dst = UsedStruct("TS")
    /\ c.err = WrapErr("", "", "src and dst must point to structs")
    /\ "TS" \in DOMAIN metadataCache

\* The steps of direct resolution that called a converter.
IsDirectConvert(e) == e.phase = "direct" /\ e.ev = "convert"

\* What the converter of such a step returned: it was given the source field
\* matched to the destination field of the step.
ConverterOutput(c, e) ==
  LET df == metadataCache[c.dt].fields[metadataCache[c.dt].fieldsByName[e.field]]
  IN CallConverter(e.fn, c.src[MatchSource(metadataCache[c.st], df)])

\* C26: in direct resolution, when the resolved converter has returned
\* without error a value that is not nil and whose type is not assignable to
\* the type of the destination field, Into has returned the type-mismatch
\* error for that field and the field holds the value it had before the
\* call.
C26_UnassignableConverterResultFails ==
  \A r \in Readers :
    LET c == call[r] IN
    \A n \in 1..Len(log) :
      LET e == log[n]
          i == metadataCache[c.dt].fieldsByName[e.field]
          out == ConverterOutput(c, e)
      IN (IsDirectConvert(e) /\ e.r = r /\ out.err = NoErr /\ out.val # NilVal
            /\ ~AssignableTo(out.val.k, metadataCache[c.dt].fields[i].typ)) =>
           /\ c.pc = "done"
           /\ c.err = WrapErr("adapting field", e.field, "type mismatch")
           /\ c.dst[i] = c.dst0[i]

\* Into(TS <- TD) has failed on Name, for which a converter returning an int
\* is resolved, with a destination whose Name was not empty and a source
\* whose Name differs from it.
C26_Witness ==
  \E r \in Readers :
    LET c == call[r] IN
    /\ c.pc = "done"
    /\ c.err = WrapErr("adapting field", "Name", "type mismatch")
    /\ c.dst0 = UsedStruct("TS")
    /\ c.src[1] # c.dst0[1]
    /\ c.dst[1] = c.dst0[1]
    /\ \E n \in 1..Len(log) :
         IsDirectConvert(log[n]) /\ log[n].field = "Name" /\ log[n].fn = "toInt"

\* C27: in direct resolution, when the resolved converter has returned nil
\* and no error, the step has set the destination field to the zero value of
\* its type and has met no error, and adaptField goes on with the validators
\* of the field: the next step of the call is the validation of that field,
\* which is given the zero value.
C27_NilConverterResultZeroes ==
  \A r \in Readers :
    LET c == call[r] IN
    \A n \in 1..Len(log) :
      LET e == log[n]
          i == metadataCache[c.dt].fieldsByName[e.field]
          out == ConverterOutput(c, e)
          zero == Zero(metadataCache[c.dt].fields[i].typ)
      IN (IsDirectConvert(e) /\ e.r = r /\ out.err = NoErr /\ out.val = NilVal) =>
           /\ e.err = NoErr
           /\ e.val = zero
           /\ n = Len(log) => (c.pc = "directValidate" /\ c.i = i /\ c.dst[i] = zero)
           /\ n < Len(log) =>
                /\ log[n + 1].ev = "validate" /\ log[n + 1].phase = "direct"
                /\ log[n + 1].field = e.field /\ log[n + 1].val = zero
                /\ log[n + 1].err = NoErr =>
                     ~(c.pc = "done" /\ c.err # NoError /\ c.err.field = e.field
                         /\ c.err.op = "adapting field")

\* Into(TS <- TD) has returned nil with a converter returning nil resolved
\* for Name: the destination Name, not empty before the call, is empty after
\* it, though the source Name is not.
C27_Witness ==
  \E r \in Readers :
    LET c == call[r] IN
    /\ c.pc = "done" /\ c.err = NoError
    /\ ~IsZero(c.dst0[1]) /\ ~IsZero(c.src[1])
    /\ c.dst[1] = Zero("string")
    /\ \E n \in 1..Len(log) :
         IsDirectConvert(log[n]) /\ log[n].field = "Name" /\ log[n].fn = "retNil"

\* C28: with DisableUnmarshalAdditionalData no step of the unmarshal phase
\* is ever taken (nothing is decoded, no key sets a field, no validator runs
\* on a key) and Into never returns the error of a malformed source
\* AdditionalData; with DisableMarshalAdditionalData the AdditionalData field
\* of the destination holds, once Into has returned, the value it held when
\* Into was called.
C28_DisabledPhasesDoNothing ==
  \A r \in Readers :
    LET c == call[r]
        ad == metadataCache[c.dt].additionalDataField
    IN c.pc # "idle" =>
         /\ options.DisableUnmarshalAdditionalData =>
              /\ \A n \in 1..Len(log) : log[n].phase # "unmarshal"
              /\ c.err.op # "unmarshaling AdditionalData"
         /\ (options.DisableMarshalAdditionalData /\ c.pc = "done" /\ ad # 0) =>
              c.dst[ad] = c.dst0[ad]

\* The keys of the source AdditionalData of a call that the unmarshal phase
\* has applied to a destination field.
AppliedKeys(c) ==
  {k \in DOMAIN SourceOverflow(c) :
     LET fi == lookup(metadataCache[c.dt], k, options.CaseInsensitiveAdditionalData)
     IN fi # 0 /\ \E n \in 1..Len(log) :
                    /\ IsOverflowSet(log[n])
                    /\ log[n].field = metadataCache[c.dt].fields[fi].name}

\* The object the marshal phase of a call has left in the destination
\* AdditionalData.
MarshalledOverflow(c) == c.dst[metadataCache[c.dt].additionalDataField].b.obj

\* C29: when an Into call with the marshal phase has returned nil, the
\* destination AdditionalData has no entry under a key of the source
\* AdditionalData that the unmarshal phase applied to a destination field.
C29_AppliedKeyNotMarshalled ==
  \A r \in Readers :
    MarshalDone(call[r]) =>
      AppliedKeys(call[r]) \cap DOMAIN MarshalledOverflow(call[r]) = {}

\* C29, amended: the marshal phase collects fields of the source struct and
\* never keys of the source AdditionalData.  The destination AdditionalData
\* has an entry under an applied key exactly when the source struct has a
\* field of that name which is not consumed by direct resolution (and is not
\* zero, unless zero values are included), and the entry is the encoding of
\* that field, not the value of the key.
C29_AppliedKeyMarshalledOnlyAsLeftoverField ==
  \A r \in Readers :
    LET c == call[r]
        srcMeta == metadataCache[c.st]
    IN MarshalDone(c) =>
         \A k \in AppliedKeys(c) :
           LET left == {i \in Leftover(c) :
                          /\ srcMeta.fields[i].name = k
                          /\ (options.IncludeZeroValues \/ ~IsZero(c.src[i]))}
           IN /\ k \in DOMAIN MarshalledOverflow(c) <=> left # {}
              /\ \A i \in left : MarshalledOverflow(c)[k] = MarshalValue(c.src[i])

\* Into(TF <- TN) has returned nil: the key Name of the source AdditionalData
\* was applied to FullName, and the destination AdditionalData has the entry
\* Name with the value of the source field Name, which differs from the
\* value of the key.
C29_Witness ==
  \E r \in Readers :
    LET c == call[r] IN
    /\ MarshalDone(c) /\ c.dt = "TF" /\ c.st = "TN"
    /\ "Name" \in AppliedKeys(c)
    /\ c.dst[1] = StringVal(2)
    /\ "Name" \in DOMAIN MarshalledOverflow(c)
    /\ MarshalledOverflow(c)["Name"] = MarshalValue(c.src[1])
    /\ MarshalledOverflow(c)["Name"] # SourceOverflow(c)["Name"]

\* The operation of a caller is a WarmMetadata call.
IsWarm(c) == c.pc # "idle" /\ c.dt = ""

\* C30: whatever WarmMetadata and Into calls run, in any order and
\* interleaving, the metadata cache only ever holds, for a struct type, the
\* metadata that getOrBuildMetadata builds for that type, whoever stored it;
\* every WarmMetadata call returns without error, also when its examples are
\* nil or not structs, for which nothing is cached; and every Into(D <- S)
\* call returns nil with the source value in the destination, whether the
\* metadata it used was stored by a WarmMetadata call or by an Into call.
C30_WarmMetadataOnlyFillsCache ==
  /\ \A t \in DOMAIN metadataCache :
       /\ t \in StructTypes
       /\ \A f \in DOMAIN getOrBuildMetadata(t) :
            metadataCache[t][f] = getOrBuildMetadata(t)[f]
  /\ \A g \in Callers :
       LET c == call[g] IN
       c.pc = "done" =>
         /\ c.err = NoError
         /\ ~IsWarm(c) => c.dst[1] = c.src[1]

\* A WarmMetadata call given a pointer to S, a value that is no struct and a
\* D has returned after storing the metadata of both types, and an Into(D <-
\* S) call of the other goroutine that found both in the cache has returned
\* nil with the source value 1 in the destination.
C30_Witness ==
  \E g \in Callers : \E g2 \in Callers \ {g} :
    /\ IsWarm(call[g]) /\ call[g].pc = "done"
    /\ \A t \in {"S", "D"} :
         /\ \E n \in 1..Len(log) :
              IsMetaReturn(log[n]) /\ log[n].r = g /\ log[n].field = t
                /\ log[n].load = "stored"
         /\ \E n \in 1..Len(log) :
              IsMetaReturn(log[n]) /\ log[n].r = g2 /\ log[n].field = t
                /\ log[n].load = "hit"
    /\ call[g2].pc = "done" /\ call[g2].dt = "D" /\ call[g2].err = NoError
    /\ call[g2].src = <<IntVal(1)>> /\ call[g2].dst = <<IntVal(1)>>

\* Whether the current registry of its kind holds a function for the scope
\* and field of a registration.
EntryPresent(e) ==
  LET v == RegistryValue(heap, IF e.kind = "conv" THEN converters ELSE validators)
  IN CASE e.scope = "global" -> HasGlobal(v, e.field)
       [] e.scope = "dst" -> HasAt(v.byDst, ScopeKey(e), e.field)
       [] e.scope = "pair" -> HasAt(v.byPair, ScopeKey(e), e.field)

\* C31: once every registration call of the two goroutines has returned,
\* the current registries hold a function for the scope and field of every
\* registration made, whatever the interleaving of the calls.
C31_NoRegistrationLost ==
  (\A w \in ConcWriters : writer[w].pc = "idle") =>
    \A i \in 1..Len(committed) : EntryPresent(committed[i])

\* Direct resolution has assigned destination field fi of a call.
DirectlyAssigned(c, fi) ==
  \E n \in 1..Len(log) :
    IsDirectSet(log[n]) /\ log[n].field = metadataCache[c.dt].fields[fi].name

\* C32: when an Into call under PreferFields has returned nil, a key of the
\* source AdditionalData was skipped for the overwrite policy only if direct
\* resolution had assigned its destination field; and a destination field
\* that direct resolution did not assign (its types are neither assignable
\* nor convertible) holds the value decoded from the key that names it.
C32_OnlyAssignedFieldsBlockOverflow ==
  \A r \in Readers :
    LET c == call[r]
        dstMeta == metadataCache[c.dt]
    IN (c.pc = "done" /\ c.err = NoError /\ options.OverwritePolicy = PreferFields) =>
         /\ \A n \in 1..Len(log) :
              (log[n].phase = "unmarshal" /\ log[n].ev = "keep") =>
                DirectlyAssigned(c, dstMeta.fieldsByName[log[n].field])
         /\ \A k \in DOMAIN SourceOverflow(c) :
              LET fi == lookup(dstMeta, k, options.CaseInsensitiveAdditionalData)
                  dec == UnmarshalTyped(SourceOverflow(c)[k], dstMeta.fields[fi].typ)
              IN (fi # 0 /\ ~dstMeta.fields[fi].isAdditionalData
                    /\ ~DirectlyAssigned(c, fi) /\ dec.ok) =>
                   c.dst[fi] = dec.val

\* The destination field, if any, that direct resolution assigned from
\* source field si of a call.
AssignedFrom(c, si) ==
  \E i \in Resolvable(c) :
    /\ MatchSource(metadataCache[c.st], metadataCache[c.dt].fields[i]) = si
    /\ DirectlyAssigned(c, i)

\* C33: when an Into call with the marshal phase has returned nil, every
\* source field that is not ignored, not AdditionalData and not zero was
\* assigned to a destination field by direct resolution or is an entry of
\* the destination AdditionalData.
C33_NoSourceValueDropped ==
  \A r \in Readers :
    LET c == call[r]
        srcMeta == metadataCache[c.st]
    IN MarshalDone(c) =>
         \A si \in 1..Len(srcMeta.fields) :
           (~srcMeta.fields[si].ignore /\ ~srcMeta.fields[si].isAdditionalData
              /\ ~IsZero(c.src[si])) =>
             \/ AssignedFrom(c, si)
             \/ /\ srcMeta.fields[si].name \in DOMAIN MarshalledOverflow(c)
                /\ MarshalledOverflow(c)[srcMeta.fields[si].name] = MarshalValue(c.src[si])

\* C34: a step of direct resolution for which no converter is registered
\* assigns the source value when the source type is the destination type,
\* assigns the source value converted to the destination type when Go
\* converts between the two, and otherwise leaves the destination field as it
\* was and reports no error.
C34_DirectCopyByType ==
  \A r \in Readers :
    LET c == call[r]
        dstMeta == metadataCache[c.dt]
        srcMeta == metadataCache[c.st]
    IN \A n \in 1..Len(log) :
         LET e == log[n]
             i == dstMeta.fieldsByName[e.field]
             df == dstMeta.fields[i]
             si == MatchSource(srcMeta, df)
             sf == srcMeta.fields[si]
         IN (IsDirectResolution(e) /\ e.r = r /\ e.fn = NilFn) =>
              /\ e.err = NoErr
              /\ sf.typ = df.typ => (e.ev = "copy" /\ e.val = c.src[si])
              /\ (sf.typ # df.typ /\ sf.typ = "int" /\ df.typ = "float64") =>
                   (e.ev = "copy" /\ e.val = Scalar("float64", c.src[si].v))
              /\ (sf.typ = "string" /\ df.typ = "int") =>
                   /\ e.ev = "skip" /\ e.val = c.dst0[i]
                   /\ (c.pc \in {"direct", "directValidate"}) => c.dst[i] = c.dst0[i]
                   /\ ~(c.err.op = "adapting field" /\ c.err.field = e.field)

\* Into(TQ <- TP) has returned nil with no converter registered: Name was
\* assigned, Count holds the float64 of the source int, and Age, a string in
\* the source, holds the int the destination had before the call.
C34_Witness ==
  \E r \in Readers :
    LET c == call[r] IN
    /\ c.pc = "done" /\ c.err = NoError /\ c.dt = "TQ" /\ c.st = "TP"
    /\ c.dst0 = UsedStruct("TQ") /\ ~IsZero(c.src[2])
    /\ c.dst[1] = c.src[1]
    /\ c.dst[3] = Scalar("float64", 1)
    /\ c.dst[2] = c.dst0[2]

\* C35: no Into call panics: a call whose source or destination has a nil
\* embedded pointer to a struct skips the fields beneath it and goes on to
\* return.
C35_NilEmbeddedPointerNeverPanics ==
  \A r \in Readers : call[r].pc # "panic"

\* C36: a validator registered at pair scope for the source and destination
\* types of an Into call is the validator run on a destination field that the
\* call sets from the source AdditionalData, and the value must pass it.
C36_PairValidatorAppliedToOverflow ==
  \A n \in 1..Len(log) :
    LET e == log[n]
        v == RegistryValue(heap, e.reg)
        pair == <<call[e.r].st, call[e.r].dt>>
    IN (e.ev = "validate" /\ e.phase = "unmarshal" /\ HasAt(v.byPair, pair, e.field)) =>
         /\ e.fn = v.byPair[pair][e.field]
         /\ e.err = CallValidator(e.fn, e.val)

\* The function the current registry holds in the slot of a registration.
SlotFn(e) ==
  LET v == RegistryValue(heap, IF e.kind = "conv" THEN converters ELSE validators)
  IN CASE e.scope = "global" -> v.global[e.field]
       [] e.scope = "dst" -> v.byDst[ScopeKey(e)][e.field]
       [] e.scope = "pair" -> v.byPair[ScopeKey(e)][e.field]

\* Two registrations are for the same kind, scope, scope key and field.
SameSlot(e, f) ==
  e.kind = f.kind /\ e.scope = f.scope /\ ScopeKey(e) = ScopeKey(f) /\ e.field = f.field

\* C37: with one writer, the two registries a Batch call has built from the
\* current ones equal the current registries with the batch's registrations
\* applied one at a time in the order of the helper calls (so an earlier
\* entry stays unless the batch registers the same scope and field, whose
\* function then replaces it), and the two Stores that end the call publish
\* exactly these registries.
C37_BatchBuildsSequentialResult ==
  \A w \in Writers :
    writer[w].pc = "batchStoreC" =>
      /\ RegistryValue(heap, writer[w].newC) =
           WithEntries(RegistryValue(heap, converters), writer[w].prog, "conv")
      /\ RegistryValue(heap, writer[w].newV) =
           WithEntries(RegistryValue(heap, validators), writer[w].prog, "val")

C37_BatchStoresWhatItBuilt ==
  \A w \in Writers :
    /\ (writer[w].pc = "batchStoreC" /\ writer'[w] # writer[w]) =>
         (converters' = writer[w].newC /\ RegistryValue(heap', converters')
                                            = RegistryValue(heap, writer[w].newC))
    /\ (writer[w].pc = "batchStoreV" /\ writer'[w] # writer[w]) =>
         /\ validators' = writer[w].newV /\ converters' = writer[w].newC
         /\ RegistryValue(heap', validators') = RegistryValue(heap, writer[w].newV)
         /\ writer'[w].pc = "idle"

C37_BatchEqualsSequentialRegistration ==
  [](C37_BatchBuildsSequentialResult) /\ [][C37_BatchStoresWhatItBuilt]_vars

\* A Batch call has returned on an Adapter that held one registration before
\* it, for a scope and field the batch registers too with another function:
\* the registry holds the batch's function.
C37_Witness ==
  \E w \in Writers, prog \in BatchProgs :
    /\ writer[w].pc = "idle"
    /\ Len(committed) = 1 + Len(prog)
    /\ SubSeq(committed, 2, Len(committed)) = OfKind(prog, "conv") \o OfKind(prog, "val")
    /\ \E n \in 1..Len(prog) :
         /\ SameSlot(committed[1], prog[n])
         /\ committed[1].fn # prog[n].fn
         /\ EntryPresent(prog[n])
         /\ SlotFn(prog[n]) = prog[n].fn
    /\ \E n \in 1..Len(prog) :
         /\ ~SameSlot(committed[1], prog[n])
         /\ EntryPresent(prog[n])

\* The source value an Into call was given: the value of its start entry.
SourceBefore(r) ==
  LET starts == {n \in 1..Len(log) : log[n].r = r /\ log[n].ev = "start"}
  IN log[CHOOSE n \in starts : \A k \in starts : k <= n].val

Invocations(r) ==
  {n \in 1..Len(log) :
     log[n].r = r /\ log[n].ev \in {"convert", "validate"} /\ log[n].fn # NilFn}

\* An Into call takes at most one direct-resolution step per destination
\* field and one step per key of the source AdditionalData, each followed by
\* at most one validation.
StepsBounded(r) ==
  LET c == call[r]
      mine(P(_)) == Cardinality({n \in 1..Len(log) : log[n].r = r /\ P(log[n])})
      fields == Len(metadataCache[c.dt].fields)
      keys == Cardinality(DOMAIN SourceOverflow(c))
  IN c.pc # "idle" =>
       /\ mine(IsDirectResolution) <= fields
       /\ mine(LAMBDA e : e.phase = "unmarshal" /\ e.ev \in {"convert", "decode", "keep"}) <= keys
       /\ mine(IsValidation) <= fields + keys

\* After a converter or validator of a call returned an error, the call
\* invokes no converter or validator again; an error of the direct phase or
\* of a validator is the error the call returns, and ends the call.
NoRetryAfterError(r) ==
  \A n \in Invocations(r) :
    LET e == log[n] IN
    /\ e.err # NoErr => \A k \in Invocations(r) :
                          k > n => ~(log[k].fn = e.fn /\ log[k].field = e.field
                                       /\ log[k].phase = e.phase)
    /\ (e.err # NoErr /\ (e.phase = "direct" \/ e.ev = "validate")) =>
         /\ call[r].pc = "done"
         /\ call[r].err.cause = e.err
         /\ \A k \in 1..Len(log) : log[k].r = r => k <= n

====
